---------------------------- MODULE Spec2Model ----------------------------
(***************************************************************************)
(* A model of the ne0giLang tree-walking interpreter: the scanner, the     *)
(* recursive-descent parser, the static resolver, the evaluator with its   *)
(* environments, functions, classes and instances, and the driver that     *)
(* runs a source text through them.                                        *)
(*                                                                         *)
(* Source texts are strings; the scanner reads them character by           *)
(* character.  The parser, resolver and evaluator are recursive operators  *)
(* that thread their object's fields as a record and return it together    *)
(* with the result, or with the exception that left the method.            *)
(***************************************************************************)
EXTENDS Integers, Sequences, FiniteSets, TLC

(***************************************************************************)
(* Bounds of the model.                                                    *)
(***************************************************************************)
\* while/for iterations and calls one top-level statement may take
MaxFuel == 12
\* calls of the counter closure, iterations of the generated loops
MaxK == 3

(***************************************************************************)
(* Runtime values.  Every value is a record of one shape:                  *)
(*   t  the Python type of the object                                      *)
(*   n  int: the integer; float: the numerator; bool: 0 or 1;              *)
(*      function, class, instance, uninitialized: the object's identity    *)
(*   d  float: the denominator (floats are kept as reduced fractions)      *)
(*   s  str: the text                                                      *)
(***************************************************************************)
Val(t, n, d, s) == [t |-> t, n |-> n, d |-> d, s |-> s]
NoneV == Val("NoneType", 0, 1, "")
BoolV(b) == Val("bool", IF b THEN 1 ELSE 0, 1, "")
IntV(i) == Val("int", i, 1, "")
StrV(s) == Val("str", 0, 1, s)

Abs(i) == IF i < 0 THEN -i ELSE i

RECURSIVE Gcd(_, _)
Gcd(a, b) == IF b = 0 THEN a ELSE Gcd(b, a % b)

\* the float n/d, reduced, with a positive denominator
FloatV(n, d) ==
    LET g == Gcd(Abs(n), Abs(d))
        sgn == IF d < 0 THEN -1 ELSE 1
    IN  Val("float", sgn * (n \div g), sgn * (d \div g), "")

FunctionV(id) == Val("Function", id, 1, "")
ClassV(id) == Val("Class", id, 1, "")
InstanceV(id) == Val("Instance", id, 1, "")
UninitializedV(id) == Val("Uninitialized", id, 1, "")
ClockV == Val("Clock", 0, 1, "")
PrintV == Val("Print", 0, 1, "")

IsNumeric(v) == v.t \in {"bool", "int", "float"}
IsFloat(v) == v.t = "float"
IsStr(v) == v.t = "str"
IsCallable(v) == v.t \in {"Function", "Class", "Clock", "Print"}

(***************************************************************************)
(* Tokens.                                                                 *)
(***************************************************************************)
Token(type, lexeme, literal, line) ==
    [type |-> type, lexeme |-> lexeme, literal |-> literal, line |-> line]

\* Token.__eq__: the type and the lexeme decide
Token_eq(a, b) == a.type = b.type /\ a.lexeme = b.lexeme

(***************************************************************************)
(* The diagnostic sink and the error flags (class Lox).                    *)
(***************************************************************************)
NewAgent == [had_error |-> FALSE, had_runtime_error |-> FALSE, diag |-> <<>>]

report(agent, line, where, message) ==
    [agent EXCEPT !.had_error = TRUE,
                  !.diag = Append(@, [kind |-> "error", line |-> line,
                                      where |-> where, message |-> message])]

error_on_line(agent, line, message) == report(agent, line, "", message)

error_on_token(agent, token, message) ==
    IF token.type = "EOF"
    THEN report(agent, token.line, "at end", message)
    ELSE report(agent, token.line, "at '" \o token.lexeme \o "'", message)

runtime_error(agent, token, message) ==
    [agent EXCEPT !.had_runtime_error = TRUE,
                  !.diag = Append(@, [kind |-> "runtime", line |-> token.line,
                                      where |-> token.lexeme, message |-> message])]

(***************************************************************************)
(* Scanner.  Its fields: source, tokens, start, current, column, line,     *)
(* and the agent it reports to.  crashed: a Python exception (IndexError)  *)
(* left the scanner.                                                       *)
(***************************************************************************)
NewScanner(source, agent) ==
    [source |-> source, tokens |-> <<>>, start |-> 0, current |-> 0,
     column |-> 0, line |-> 1, agent |-> agent, crashed |-> FALSE]

\* what peek returns at the end of the source: no character of a source
NUL == "<NUL>"
Digits == {"0", "1", "2", "3", "4", "5", "6", "7", "8", "9"}
Alphas == {"a", "b", "c", "d", "e", "f", "g", "h", "i", "j", "k", "l", "m",
           "n", "o", "p", "q", "r", "s", "t", "u", "v", "w", "x", "y", "z",
           "A", "B", "C", "D", "E", "F", "G", "H", "I", "J", "K", "L", "M",
           "N", "O", "P", "Q", "R", "S", "T", "U", "V", "W", "X", "Y", "Z",
           "_"}

keywords ==
    [w \in {"break", "class", "continue", "else", "false", "for", "fn", "if",
            "nil", "return", "super", "this", "true", "var", "while"} |->
        CASE w = "break" -> "BREAK" [] w = "class" -> "CLASS"
          [] w = "continue" -> "CONTINUE" [] w = "else" -> "ELSE"
          [] w = "false" -> "FALSE" [] w = "for" -> "FOR" [] w = "fn" -> "FN"
          [] w = "if" -> "IF" [] w = "nil" -> "NIL" [] w = "return" -> "RETURN"
          [] w = "super" -> "SUPER" [] w = "this" -> "THIS"
          [] w = "true" -> "TRUE" [] w = "var" -> "VAR" [] w = "while" -> "WHILE"]

\* source[i], i counted from 0 as in Python
CharAt(source, i) == SubSeq(source, i + 1, i + 1)
\* source[a:b]
Slice(source, a, b) == SubSeq(source, a + 1, b)

Scanner_is_at_end(sc) == sc.current >= Len(sc.source)
Scanner_is_digit(c) == c \in Digits
Scanner_is_alpha(c) == c \in Alphas
Scanner_is_alpha_numeric(c) == Scanner_is_alpha(c) \/ Scanner_is_digit(c)

\* the scanner after _advance; source[current - 1] past the end raises IndexError
Scanner_advance(sc) ==
    [sc EXCEPT !.current = @ + 1, !.column = @ + 1,
               !.crashed = @ \/ sc.current >= Len(sc.source)]

Scanner_peek(sc) ==
    IF Scanner_is_at_end(sc) THEN NUL ELSE CharAt(sc.source, sc.current)

Scanner_peek_next(sc) ==
    IF sc.current + 1 >= Len(sc.source) THEN NUL
    ELSE CharAt(sc.source, sc.current + 1)

\* _match is true exactly when the next character is the expected one
Scanner_match_ok(sc, expected) ==
    ~Scanner_is_at_end(sc) /\ CharAt(sc.source, sc.current) = expected
\* and then consumes it (the column is not advanced)
Scanner_match(sc, expected) ==
    IF Scanner_match_ok(sc, expected) THEN [sc EXCEPT !.current = @ + 1] ELSE sc

Scanner_add_token(sc, type, literal) ==
    [sc EXCEPT !.tokens =
        Append(@, Token(type, Slice(sc.source, sc.start, sc.current), literal, sc.line))]

DigitValue(c) ==
    CASE c = "0" -> 0 [] c = "1" -> 1 [] c = "2" -> 2 [] c = "3" -> 3
      [] c = "4" -> 4 [] c = "5" -> 5 [] c = "6" -> 6 [] c = "7" -> 7
      [] c = "8" -> 8 [] c = "9" -> 9

\* int(text) of a text of digits
RECURSIVE PyInt(_)
PyInt(text) ==
    IF text = "" THEN 0
    ELSE 10 * PyInt(SubSeq(text, 1, Len(text) - 1))
         + DigitValue(SubSeq(text, Len(text), Len(text)))

RECURSIVE Pow10(_)
Pow10(k) == IF k = 0 THEN 1 ELSE 10 * Pow10(k - 1)

RECURSIVE IndexOfDot(_, _)
IndexOfDot(text, i) ==
    IF i > Len(text) THEN 0
    ELSE IF SubSeq(text, i, i) = "." THEN i ELSE IndexOfDot(text, i + 1)

\* float(text) of a text digits "." digits
PyFloat(text) ==
    LET dot == IndexOfDot(text, 1)
        whole == SubSeq(text, 1, dot - 1)
        frac == SubSeq(text, dot + 1, Len(text))
    IN  FloatV(PyInt(whole) * Pow10(Len(frac)) + PyInt(frac), Pow10(Len(frac)))

RECURSIVE Scanner_while_digits(_)
Scanner_while_digits(sc) ==
    IF Scanner_is_digit(Scanner_peek(sc))
    THEN Scanner_while_digits(Scanner_advance(sc))
    ELSE sc

Scanner_number(sc) ==
    LET s1 == Scanner_while_digits(sc)
    IN  IF Scanner_peek(s1) = "."
        THEN LET s2 == Scanner_while_digits(Scanner_advance(s1))
             IN  Scanner_add_token(s2, "NUMBER",
                     PyFloat(Slice(s2.source, s2.start, s2.current)))
        ELSE Scanner_add_token(s1, "NUMBER",
                 IntV(PyInt(Slice(s1.source, s1.start, s1.current))))

RECURSIVE Scanner_while_alnum(_)
Scanner_while_alnum(sc) ==
    IF Scanner_is_alpha_numeric(Scanner_peek(sc))
    THEN Scanner_while_alnum(Scanner_advance(sc))
    ELSE sc

Scanner_identifier(sc) ==
    LET s1 == Scanner_while_alnum(sc)
        text == Slice(s1.source, s1.start, s1.current)
    IN  Scanner_add_token(s1,
            IF text \in DOMAIN keywords THEN keywords[text] ELSE "IDENTIFIER", NoneV)

RECURSIVE Scanner_while_string(_)
Scanner_while_string(sc) ==
    IF Scanner_peek(sc) # "\"" /\ ~Scanner_is_at_end(sc)
    THEN Scanner_while_string(Scanner_advance(
             IF Scanner_peek(sc) = "\n" THEN [sc EXCEPT !.line = @ + 1] ELSE sc))
    ELSE sc

Scanner_string(sc) ==
    LET s1 == Scanner_while_string(sc)
    IN  IF Scanner_is_at_end(s1)
        THEN [s1 EXCEPT !.agent = error_on_line(@, s1.line, "Unterminated string.")]
        ELSE LET s2 == Scanner_advance(s1)
             IN  Scanner_add_token(s2, "STRING",
                     StrV(Slice(s2.source, s2.start + 1, s2.current - 1)))

RECURSIVE Scanner_while_line_comment(_)
Scanner_while_line_comment(sc) ==
    IF Scanner_peek(sc) # "\n" /\ ~Scanner_is_at_end(sc)
    THEN Scanner_while_line_comment(Scanner_advance(sc))
    ELSE sc

RECURSIVE Scanner_while_block_comment(_)
Scanner_while_block_comment(sc) ==
    IF ~(Scanner_is_at_end(sc)
         \/ (Scanner_peek(sc) # "*" /\ Scanner_peek_next(sc) # "/"))
    THEN Scanner_while_block_comment(Scanner_advance(
             IF Scanner_peek(sc) = "\n" THEN [sc EXCEPT !.line = @ + 1] ELSE sc))
    ELSE sc

Scanner_block_comment(sc) ==
    Scanner_advance(Scanner_advance(Scanner_while_block_comment(sc)))

\* a one-character token, or the two-character one when `second` follows
Scanner_two(sc, second, two, one) ==
    IF Scanner_match_ok(sc, second)
    THEN Scanner_add_token(Scanner_match(sc, second), two, NoneV)
    ELSE Scanner_add_token(sc, one, NoneV)

\* the same with two candidates for the second character, tried in order
Scanner_three(sc, secondA, twoA, secondB, twoB, one) ==
    IF Scanner_match_ok(sc, secondA)
    THEN Scanner_add_token(Scanner_match(sc, secondA), twoA, NoneV)
    ELSE Scanner_two(sc, secondB, twoB, one)

\* "<<" and ">>", with "=" after them or not
Scanner_shift(sc, c, withEqual, without) ==
    LET s1 == Scanner_match(sc, c)
    IN  Scanner_two(s1, "=", withEqual, without)

SingleCharTokens ==
    [c \in {"(", ")", "{", "}", ",", ".", ";", "?", ":", "~"} |->
        CASE c = "(" -> "LEFT_PAREN" [] c = ")" -> "RIGHT_PAREN"
          [] c = "{" -> "LEFT_BRACE" [] c = "}" -> "RIGHT_BRACE"
          [] c = "," -> "COMMA" [] c = "." -> "DOT" [] c = ";" -> "SEMICOLON"
          [] c = "?" -> "QUESTION" [] c = ":" -> "COLON" [] c = "~" -> "BIT_NOT"]

Scanner_scan_token(sc0) ==
    LET c == CharAt(sc0.source, sc0.current)
        sc == Scanner_advance(sc0)
    IN  CASE c \in DOMAIN SingleCharTokens ->
                Scanner_add_token(sc, SingleCharTokens[c], NoneV)
          [] c = "-" -> Scanner_three(sc, "=", "MINUS_EQUAL", "-", "DECREMENT", "MINUS")
          [] c = "+" -> Scanner_three(sc, "=", "PLUS_EQUAL", "+", "INCREMENT", "PLUS")
          [] c = "*" -> Scanner_three(sc, "=", "STAR_EQUAL", "*", "POWER", "STAR")
          [] c = "!" -> Scanner_two(sc, "=", "BANG_EQUAL", "BANG")
          [] c = "=" -> Scanner_two(sc, "=", "EQUAL_EQUAL", "EQUAL")
          [] c = "<" ->
                IF Scanner_match_ok(sc, "<")
                THEN Scanner_shift(sc, "<", "BIT_LSHIFT_EQUAL", "BIT_LSHIFT")
                ELSE Scanner_two(sc, "=", "LESS_EQUAL", "LESS")
          [] c = ">" ->
                IF Scanner_match_ok(sc, "=")
                THEN Scanner_add_token(Scanner_match(sc, "="), "GREATER_EQUAL", NoneV)
                ELSE IF Scanner_match_ok(sc, ">")
                THEN Scanner_shift(sc, ">", "BIT_RSHIFT_EQUAL", "BIT_RSHIFT")
                ELSE Scanner_add_token(sc, "GREATER", NoneV)
          [] c = "/" ->
                IF Scanner_match_ok(sc, "/")
                THEN Scanner_while_line_comment(Scanner_match(sc, "/"))
                ELSE IF Scanner_match_ok(sc, "*")
                THEN Scanner_block_comment(Scanner_match(sc, "*"))
                ELSE Scanner_two(sc, "=", "SLASH_EQUAL", "SLASH")
          [] c \in {" ", "\r", "\t"} -> sc
          [] c = "\n" -> [sc EXCEPT !.line = @ + 1, !.column = 0]
          [] c = "\"" -> Scanner_string(sc)
          [] c = "&" -> Scanner_three(sc, "&", "AND", "=", "BIT_AND_EQUAL", "BIT_AND")
          [] c = "|" -> Scanner_three(sc, "|", "OR", "=", "BIT_OR_EQUAL", "BIT_OR")
          [] c = "%" -> Scanner_two(sc, "=", "MODULO_EQUAL", "MODULO")
          [] c = "^" -> Scanner_two(sc, "=", "BIT_XOR_EQUAL", "BIT_XOR")
          [] OTHER ->
                IF Scanner_is_digit(c) THEN Scanner_number(sc)
                ELSE IF Scanner_is_alpha(c) THEN Scanner_identifier(sc)
                ELSE [sc EXCEPT !.agent =
                         error_on_line(@, sc.line, "Unexpected character.")]

\* the while loop of scan_tokens with at most n rounds left: one round when
\* n = 1, and otherwise the first half of the rounds before the second
RECURSIVE Scanner_scan_rounds(_, _)
Scanner_scan_rounds(sc, n) ==
    IF sc.crashed \/ Scanner_is_at_end(sc) THEN sc
    ELSE IF n = 1 THEN Scanner_scan_token([sc EXCEPT !.start = sc.current])
    ELSE Scanner_scan_rounds(Scanner_scan_rounds(sc, n \div 2), n - n \div 2)

\* a round scans at least one character, so the loop has at most
\* len(source) rounds
Scanner_scan_loop(sc) == Scanner_scan_rounds(sc, Len(sc.source))

\* the scanner after scan_tokens: its tokens end with EOF unless it crashed
Scanner_scan_tokens(sc) ==
    LET s1 == Scanner_scan_loop(sc)
    IN  IF s1.crashed THEN s1
        ELSE [s1 EXCEPT !.tokens = Append(@, Token("EOF", "", NoneV, s1.line))]

(***************************************************************************)
(* The syntax tree (expr.py, stmt.py).  A node is a record; k names its    *)
(* class.  Variable, Assign and This nodes are keys of the interpreter's   *)
(* _locals dictionary, which compares them by object identity: id is the   *)
(* identity, given at construction.  An absent Optional is NoneNode.       *)
(***************************************************************************)
NoneNode == [k |-> "None"]
IsNone(node) == node.k = "None"

Literal(value) == [k |-> "Literal", value |-> value]
Grouping(expression) == [k |-> "Grouping", expression |-> expression]
Unary(operator, right) == [k |-> "Unary", operator |-> operator, right |-> right]
Binary(left, operator, right) ==
    [k |-> "Binary", left |-> left, operator |-> operator, right |-> right]
Logical(left, operator, right) ==
    [k |-> "Logical", left |-> left, operator |-> operator, right |-> right]
Comma(left, operator, right) ==
    [k |-> "Comma", left |-> left, operator |-> operator, right |-> right]
Ternary(condition, then_branch, else_branch) ==
    [k |-> "Ternary", condition |-> condition, then_branch |-> then_branch,
     else_branch |-> else_branch]
Variable(name, id) == [k |-> "Variable", name |-> name, id |-> id]
Assign(name, value, id) == [k |-> "Assign", name |-> name, value |-> value, id |-> id]
Call(callee, paren, arguments) ==
    [k |-> "Call", callee |-> callee, paren |-> paren, arguments |-> arguments]
Get(obj, name) == [k |-> "Get", obj |-> obj, name |-> name]
Set(obj, name, value) == [k |-> "Set", obj |-> obj, name |-> name, value |-> value]
This(keyword, id) == [k |-> "This", keyword |-> keyword, id |-> id]
FunctionExpr(params, body) == [k |-> "FunctionExpr", params |-> params, body |-> body]
\* expr.py of this source has no Super class, though resolver.py imports it:
\* the node of the specification, whose method is absent in a bare super(...)
Super(keyword, method, id) ==
    [k |-> "Super", keyword |-> keyword, method |-> method, id |-> id]

Block(statements) == [k |-> "Block", statements |-> statements]
BreakStmt == [k |-> "Break"]
ContinueStmt == [k |-> "Continue"]
ClassStmt(name, superclass, methods) ==
    [k |-> "Class", name |-> name, superclass |-> superclass, methods |-> methods]
Expression(expression) == [k |-> "Expression", expression |-> expression]
For(initializer, condition, increment, body) ==
    [k |-> "For", initializer |-> initializer, condition |-> condition,
     increment |-> increment, body |-> body]
FunctionStmt(name, function) == [k |-> "Function", name |-> name, function |-> function]
If(condition, then_branch, else_branch) ==
    [k |-> "If", condition |-> condition, then_branch |-> then_branch,
     else_branch |-> else_branch]
ReturnStmt(keyword, value) == [k |-> "Return", keyword |-> keyword, value |-> value]
MultiVar(variables) == [k |-> "MultiVar", variables |-> variables]
Var(name, initializer) == [k |-> "Var", name |-> name, initializer |-> initializer]
While(condition, body) == [k |-> "While", condition |-> condition, body |-> body]

(***************************************************************************)
(* Parser.  Its fields: tokens, current, loop_depth and the agent; nid is  *)
(* the identity the next keyed node gets.  A parse method returns          *)
(* [ps, err, node]: the parser after it, whether a ParseError left it, and *)
(* what it returned.                                                       *)
(***************************************************************************)
NewParser(tokens, agent, nid) ==
    [tokens |-> tokens, current |-> 0, loop_depth |-> 0, agent |-> agent, nid |-> nid]

MaxParameters == 255
MaxArguments == 255

POk(ps, node) == [ps |-> ps, err |-> FALSE, node |-> node]
PRaise(ps) == [ps |-> ps, err |-> TRUE, node |-> NoneNode]

Parser_peek(ps) == ps.tokens[ps.current + 1]
\* tokens[current - 1]; at current = 0 Python's index -1 is the last token
Parser_previous(ps) ==
    IF ps.current = 0 THEN ps.tokens[Len(ps.tokens)] ELSE ps.tokens[ps.current]
Parser_is_at_end(ps) == Parser_peek(ps).type = "EOF"
Parser_check(ps, type) == ~Parser_is_at_end(ps) /\ Parser_peek(ps).type = type
Parser_advance(ps) ==
    IF ~Parser_is_at_end(ps) THEN [ps EXCEPT !.current = @ + 1] ELSE ps
\* _match is true exactly when the next token has one of the types
Parser_match_ok(ps, types) == \E type \in types : Parser_check(ps, type)
\* and then advances
Parser_match(ps, types) == IF Parser_match_ok(ps, types) THEN Parser_advance(ps) ELSE ps
\* _error reports and returns the ParseError; the caller raises it or not
Parser_error(ps, token, message) ==
    [ps EXCEPT !.agent = error_on_token(@, token, message)]
Parser_consume(ps, type, message) ==
    IF Parser_check(ps, type)
    THEN POk(Parser_advance(ps), Parser_previous(Parser_advance(ps)))
    ELSE PRaise(Parser_error(ps, Parser_peek(ps), message))

SynchronizeTypes == {"CLASS", "FN", "VAR", "FOR", "IF", "WHILE", "RETURN"}

RECURSIVE Parser_synchronize_loop(_)
Parser_synchronize_loop(ps) ==
    IF Parser_is_at_end(ps) THEN ps
    ELSE IF Parser_previous(ps).type = "SEMICOLON" THEN ps
    ELSE IF Parser_peek(ps).type \in SynchronizeTypes THEN ps
    ELSE Parser_synchronize_loop(Parser_advance(ps))

Parser_synchronize(ps) == Parser_synchronize_loop(Parser_advance(ps))

RECURSIVE Parser_declaration(_), Parser_class(_), Parser_methods(_, _),
          Parser_function(_, _), Parser_function_body(_, _), Parser_parameters(_, _),
          Parser_multi_var_declaration(_), Parser_multi_var_loop(_, _),
          Parser_var_declaration(_), Parser_statement(_), Parser_for_statement(_),
          Parser_if_statement(_), Parser_block(_), Parser_block_loop(_, _),
          Parser_return_statement(_), Parser_while_statement(_),
          Parser_expression_statement(_), Parser_expression(_),
          Parser_comma_expression(_), Parser_assignment(_), Parser_ternary(_),
          Parser_ternary_loop(_, _), Parser_or(_), Parser_and(_), Parser_equality(_),
          Parser_comparison(_), Parser_term(_), Parser_factor(_), Parser_unary(_),
          Parser_exponent(_), Parser_call(_), Parser_call_loop(_, _),
          Parser_finish_call(_, _), Parser_arguments(_, _), Parser_primary(_),
          Parser_method(_, _), Parser_left_loop(_, _, _, _, _)

\* self._name(): a method of the parser, called by its name
Parser_method(name, ps) ==
    CASE name = "declaration" -> Parser_declaration(ps)
      [] name = "statement" -> Parser_statement(ps)
      [] name = "expression" -> Parser_expression(ps)
      [] name = "assignment" -> Parser_assignment(ps)
      [] name = "and" -> Parser_and(ps)
      [] name = "equality" -> Parser_equality(ps)
      [] name = "comparison" -> Parser_comparison(ps)
      [] name = "term" -> Parser_term(ps)
      [] name = "factor" -> Parser_factor(ps)
      [] name = "unary" -> Parser_unary(ps)
      [] name = "call" -> Parser_call(ps)

\* v under the name the rest of a definition knows it by
With(v, rest(_)) == rest(v)

\* the same, written After(rest)[v]: a function is applied to the value of
\* its argument, so v has been computed when the rest is entered
After(rest(_)) == [v \in Any |-> rest(v)]

\* the rest of a parse method after a call that returned r: a ParseError
\* raised in the call leaves the method, otherwise the method goes on
Parser_then(r, rest(_)) == IF r.err THEN r ELSE rest(r)

\* the same, written Parser_after(rest)[call]: the call has returned when the
\* rest is entered
Parser_after(rest(_)) == [r \in Any |-> Parser_then(r, rest)]

\* while self._match(*types): operator = previous; right = operand(); expr = kind(...)
Parser_left_loop(ps, expr, types, kind, operand) ==
    IF Parser_match_ok(ps, types)
    THEN With(Parser_match(ps, types), LAMBDA p1 :
         Parser_after(LAMBDA r :
             Parser_left_loop(r.ps,
                 [k |-> kind, left |-> expr, operator |-> Parser_previous(p1),
                  right |-> r.node], types, kind, operand))
             [Parser_method(operand, p1)])
    ELSE POk(ps, expr)

Parser_expression(ps) == Parser_comma_expression(ps)

Parser_comma_expression(ps) ==
    Parser_after(LAMBDA r :
        Parser_left_loop(r.ps, r.node, {"COMMA"}, "Comma", "assignment"))
        [Parser_method("assignment", ps)]

Parser_assignment(ps) ==
    Parser_after(LAMBDA r :
        IF ~Parser_match_ok(r.ps, {"EQUAL"}) THEN r
        ELSE With(Parser_match(r.ps, {"EQUAL"}), LAMBDA p1 :
             Parser_after(LAMBDA v :
                 IF r.node.k = "Variable"
                 THEN POk([v.ps EXCEPT !.nid = @ + 1],
                          Assign(r.node.name, v.node, v.ps.nid))
                 ELSE IF r.node.k = "Get"
                 THEN POk(v.ps, Set(r.node.obj, r.node.name, v.node))
                 ELSE POk(Parser_error(v.ps, Parser_previous(p1),
                                       "Invalid assignment target."),
                          r.node))
                 [Parser_method("assignment", p1)]))
        [Parser_ternary(ps)]

Parser_ternary_loop(ps, expr) ==
    IF ~Parser_match_ok(ps, {"QUESTION"}) THEN POk(ps, expr)
    ELSE Parser_then(Parser_method("assignment", Parser_match(ps, {"QUESTION"})),
                     LAMBDA t :
         Parser_then(Parser_consume(t.ps, "COLON", "Expected ':' after expression."),
                     LAMBDA c :
         Parser_after(LAMBDA e :
             Parser_ternary_loop(e.ps, Ternary(expr, t.node, e.node)))
             [Parser_method("assignment", c.ps)]))

Parser_ternary(ps) ==
    Parser_after(LAMBDA r : Parser_ternary_loop(r.ps, r.node))
        [Parser_or(ps)]

Parser_or(ps) ==
    Parser_after(LAMBDA r : Parser_left_loop(r.ps, r.node, {"OR"}, "Logical", "and"))
        [Parser_and(ps)]

Parser_and(ps) ==
    Parser_after(LAMBDA r :
        Parser_left_loop(r.ps, r.node, {"AND"}, "Logical", "equality"))
        [Parser_equality(ps)]

Parser_equality(ps) ==
    Parser_after(LAMBDA r :
        Parser_left_loop(r.ps, r.node, {"BANG_EQUAL", "EQUAL_EQUAL"},
                         "Binary", "comparison"))
        [Parser_comparison(ps)]

Parser_comparison(ps) ==
    Parser_after(LAMBDA r :
        Parser_left_loop(r.ps, r.node,
            {"GREATER", "GREATER_EQUAL", "LESS", "LESS_EQUAL"}, "Binary", "term"))
        [Parser_term(ps)]

Parser_term(ps) ==
    Parser_after(LAMBDA r :
        Parser_left_loop(r.ps, r.node, {"MINUS", "PLUS"}, "Binary", "factor"))
        [Parser_factor(ps)]

Parser_factor(ps) ==
    Parser_after(LAMBDA r :
        Parser_left_loop(r.ps, r.node, {"SLASH", "STAR"}, "Binary", "unary"))
        [Parser_unary(ps)]

UnaryTypes == {"BANG", "MINUS", "PLUS", "INCREMENT", "DECREMENT"}

Parser_unary(ps) ==
    IF Parser_match_ok(ps, UnaryTypes)
    THEN With(Parser_match(ps, UnaryTypes), LAMBDA p1 :
         Parser_after(LAMBDA r : POk(r.ps, Unary(Parser_previous(p1), r.node)))
             [Parser_unary(p1)])
    ELSE Parser_exponent(ps)

Parser_exponent(ps) ==
    Parser_after(LAMBDA r :
        Parser_left_loop(r.ps, r.node, {"POWER"}, "Binary", "call"))
        [Parser_call(ps)]

Parser_call_loop(ps, expr) ==
    IF Parser_match_ok(ps, {"LEFT_PAREN"})
    THEN Parser_after(LAMBDA r : Parser_call_loop(r.ps, r.node))
             [Parser_finish_call(Parser_match(ps, {"LEFT_PAREN"}), expr)]
    ELSE IF Parser_match_ok(ps, {"DOT"})
    THEN Parser_then(Parser_consume(Parser_match(ps, {"DOT"}), "IDENTIFIER",
                                    "Expected property name."),
                     LAMBDA n : Parser_call_loop(n.ps, Get(expr, n.node)))
    ELSE POk(ps, expr)

Parser_call(ps) ==
    Parser_after(LAMBDA r : Parser_call_loop(r.ps, r.node))
        [Parser_primary(ps)]

\* the argument loop; node is the list of arguments
Parser_arguments(ps, arguments) ==
    Parser_after(LAMBDA r :
        IF Parser_match_ok(r.ps, {"COMMA"})
        THEN Parser_arguments(Parser_match(r.ps, {"COMMA"}), Append(arguments, r.node))
        ELSE POk(r.ps, Append(arguments, r.node)))
        [Parser_method("assignment",
                       IF Len(arguments) >= MaxArguments
                       THEN Parser_error(ps, Parser_peek(ps),
                                         "Cannot have more than 255 arguments.")
                       ELSE ps)]

Parser_finish_call(ps, callee) ==
    Parser_after(LAMBDA a :
        Parser_then(Parser_consume(a.ps, "RIGHT_PAREN", "Expected ')' after arguments."),
                    LAMBDA c : POk(c.ps, Call(callee, c.node, a.node))))
        [IF ~Parser_check(ps, "RIGHT_PAREN")
         THEN Parser_arguments(ps, <<>>) ELSE POk(ps, <<>>)]

\* the first _match that succeeds decides; a token has one type, so at most
\* one of them does
Parser_primary(ps) ==
    CASE Parser_match_ok(ps, {"FALSE"}) ->
             POk(Parser_match(ps, {"FALSE"}), Literal(BoolV(FALSE)))
      [] Parser_match_ok(ps, {"FN"}) ->
             Parser_function_body(Parser_match(ps, {"FN"}), "function")
      [] Parser_match_ok(ps, {"IDENTIFIER"}) ->
             With(Parser_match(ps, {"IDENTIFIER"}), LAMBDA p1 :
                 POk([p1 EXCEPT !.nid = @ + 1],
                     Variable(Parser_previous(p1), p1.nid)))
      [] Parser_match_ok(ps, {"LEFT_PAREN"}) ->
             Parser_after(LAMBDA r :
                 Parser_then(Parser_consume(r.ps, "RIGHT_PAREN",
                                            "Expected ')' after expression."),
                             LAMBDA c : POk(c.ps, Grouping(r.node))))
                 [Parser_method("expression", Parser_match(ps, {"LEFT_PAREN"}))]
      [] Parser_match_ok(ps, {"NIL"}) ->
             POk(Parser_match(ps, {"NIL"}), Literal(NoneV))
      [] Parser_match_ok(ps, {"NUMBER", "STRING"}) ->
             With(Parser_match(ps, {"NUMBER", "STRING"}), LAMBDA p1 :
                 POk(p1, Literal(Parser_previous(p1).literal)))
      [] Parser_match_ok(ps, {"THIS"}) ->
             With(Parser_match(ps, {"THIS"}), LAMBDA p1 :
                 POk([p1 EXCEPT !.nid = @ + 1], This(Parser_previous(p1), p1.nid)))
      [] Parser_match_ok(ps, {"TRUE"}) ->
             POk(Parser_match(ps, {"TRUE"}), Literal(BoolV(TRUE)))
      [] OTHER -> PRaise(Parser_error(ps, Parser_peek(ps), "Expected expression."))

\* the parameter loop; node is the list of parameters
Parser_parameters(ps, parameters) ==
    Parser_then(Parser_consume(
                    IF Len(parameters) >= MaxParameters
                    THEN Parser_error(ps, Parser_peek(ps),
                                      "Cannot have more than 255 parameters.")
                    ELSE ps,
                    "IDENTIFIER", "Expected parameter name."),
                LAMBDA r :
        IF Parser_match_ok(r.ps, {"COMMA"})
        THEN Parser_parameters(Parser_match(r.ps, {"COMMA"}), Append(parameters, r.node))
        ELSE POk(r.ps, Append(parameters, r.node)))

\* loop_depth is not touched: a body keeps the depth of the place it is written in
Parser_function_body(ps, kind) ==
    Parser_then(Parser_consume(ps, "LEFT_PAREN", "Expected '(' after " \o kind \o "."),
                LAMBDA l :
    Parser_then(IF ~Parser_check(l.ps, "RIGHT_PAREN")
                THEN Parser_parameters(l.ps, <<>>) ELSE POk(l.ps, <<>>),
                LAMBDA a :
    Parser_then(Parser_consume(a.ps, "RIGHT_PAREN", "Expected ')' after parameters."),
                LAMBDA r :
    Parser_then(Parser_consume(r.ps, "LEFT_BRACE",
                               "Expected '{' before " \o kind \o " body."),
                LAMBDA b :
    Parser_after(LAMBDA body : POk(body.ps, FunctionExpr(a.node, body.node)))
        [Parser_block(b.ps)]))))

Parser_function(ps, kind) ==
    Parser_then(Parser_consume(ps, "IDENTIFIER", "Expected " \o kind \o " name."),
                LAMBDA n :
    Parser_after(LAMBDA f : POk(f.ps, FunctionStmt(n.node, f.node)))
        [Parser_function_body(n.ps, kind)])

Parser_methods(ps, methods) ==
    IF ~Parser_check(ps, "RIGHT_BRACE") /\ ~Parser_is_at_end(ps)
    THEN Parser_after(LAMBDA m : Parser_methods(m.ps, Append(methods, m.node)))
             [Parser_function(ps, "method")]
    ELSE POk(ps, methods)

\* ClassStmt(name, methods): the parser knows no superclass clause, the
\* statement it builds has none
Parser_class(ps) ==
    Parser_then(Parser_consume(ps, "IDENTIFIER", "Expected class name."), LAMBDA n :
    Parser_then(Parser_consume(n.ps, "LEFT_BRACE", "Expected '{' before class body."),
                LAMBDA l :
    Parser_then(Parser_methods(l.ps, <<>>), LAMBDA m :
    Parser_then(Parser_consume(m.ps, "RIGHT_BRACE", "Expected '}' after class body."),
                LAMBDA r : POk(r.ps, ClassStmt(n.node, NoneNode, m.node))))))

Parser_var_declaration(ps) ==
    Parser_then(Parser_consume(ps, "IDENTIFIER", "Expected variable name."), LAMBDA n :
        IF Parser_match_ok(n.ps, {"EQUAL"})
        THEN Parser_after(LAMBDA i : POk(i.ps, Var(n.node, i.node)))
                 [Parser_method("assignment", Parser_match(n.ps, {"EQUAL"}))]
        ELSE POk(n.ps, Var(n.node, NoneNode)))

Parser_multi_var_loop(ps, variables) ==
    Parser_after(LAMBDA v :
        IF Parser_match_ok(v.ps, {"COMMA"})
        THEN Parser_multi_var_loop(Parser_match(v.ps, {"COMMA"}),
                                   Append(variables, v.node))
        ELSE POk(v.ps, Append(variables, v.node)))
        [Parser_var_declaration(ps)]

Parser_multi_var_declaration(ps) ==
    Parser_after(LAMBDA v :
        Parser_then(Parser_consume(v.ps, "SEMICOLON",
                                   "Expected ';' after variable declaration."),
                    LAMBDA c : POk(c.ps, MultiVar(v.node))))
        [Parser_multi_var_loop(ps, <<>>)]

\* raise ParseError(...): raised without a call of _error, so nothing is reported
Parser_break_statement(ps) ==
    IF ps.loop_depth = 0 THEN PRaise(ps)
    ELSE Parser_then(Parser_consume(ps, "SEMICOLON", "Expected ';' after 'break'."),
                     LAMBDA c : POk(c.ps, BreakStmt))

Parser_continue_statement(ps) ==
    IF ps.loop_depth = 0 THEN PRaise(ps)
    ELSE Parser_then(Parser_consume(ps, "SEMICOLON", "Expected ';' after 'continue'."),
                     LAMBDA c : POk(c.ps, ContinueStmt))

\* the first _match that succeeds decides; a token has one type, so at most
\* one of them does
Parser_statement(ps) ==
    CASE Parser_match_ok(ps, {"BREAK"}) ->
             Parser_break_statement(Parser_match(ps, {"BREAK"}))
      [] Parser_match_ok(ps, {"CONTINUE"}) ->
             Parser_continue_statement(Parser_match(ps, {"CONTINUE"}))
      [] Parser_match_ok(ps, {"FOR"}) ->
             Parser_for_statement(Parser_match(ps, {"FOR"}))
      [] Parser_match_ok(ps, {"IF"}) ->
             Parser_if_statement(Parser_match(ps, {"IF"}))
      [] Parser_match_ok(ps, {"LEFT_BRACE"}) ->
             Parser_after(LAMBDA b : POk(b.ps, Block(b.node)))
                 [Parser_block(Parser_match(ps, {"LEFT_BRACE"}))]
      [] Parser_match_ok(ps, {"RETURN"}) ->
             Parser_return_statement(Parser_match(ps, {"RETURN"}))
      [] Parser_match_ok(ps, {"SEMICOLON"}) ->
             POk(Parser_match(ps, {"SEMICOLON"}), NoneNode)
      [] Parser_match_ok(ps, {"WHILE"}) ->
             Parser_while_statement(Parser_match(ps, {"WHILE"}))
      [] OTHER -> Parser_expression_statement(ps)

\* a loop body whose loop_depth is lowered only when the body was parsed
Unbalanced_loop_body(ps) ==
    LET body == Parser_method("statement", [ps EXCEPT !.loop_depth = @ + 1])
    IN  IF body.err THEN body ELSE [body EXCEPT !.ps.loop_depth = @ - 1]

\* the body of a loop, parsed with loop_depth raised; finally lowers it again
Parser_loop_body(ps) ==
    [Parser_method("statement", [ps EXCEPT !.loop_depth = @ + 1])
         EXCEPT !.ps.loop_depth = @ - 1]

Parser_for_statement(ps) ==
    Parser_then(Parser_consume(ps, "LEFT_PAREN", "Expected '(' after 'for'."),
                LAMBDA l :
    Parser_then(IF Parser_match_ok(l.ps, {"VAR"})
                THEN Parser_multi_var_declaration(Parser_match(l.ps, {"VAR"}))
                ELSE IF Parser_match_ok(l.ps, {"SEMICOLON"})
                THEN POk(Parser_match(l.ps, {"SEMICOLON"}), NoneNode)
                ELSE Parser_expression_statement(l.ps),
                LAMBDA i :
    Parser_then(IF ~Parser_check(i.ps, "SEMICOLON")
                THEN Parser_method("expression", i.ps) ELSE POk(i.ps, NoneNode),
                LAMBDA c :
    Parser_then(Parser_consume(c.ps, "SEMICOLON", "Expected ';' after loop condition."),
                LAMBDA s1 :
    Parser_then(IF ~Parser_check(s1.ps, "RIGHT_PAREN")
                THEN Parser_method("expression", s1.ps) ELSE POk(s1.ps, NoneNode),
                LAMBDA n :
    Parser_then(Parser_consume(n.ps, "RIGHT_PAREN", "Expected ')' after for clause."),
                LAMBDA r :
    Parser_after(LAMBDA b : POk(b.ps, Block(<<For(i.node, c.node, n.node, b.node)>>)))
        [Parser_loop_body(r.ps)]))))))

Parser_if_statement(ps) ==
    Parser_then(Parser_consume(ps, "LEFT_PAREN", "Expected '(' after 'if'."),
                LAMBDA l :
    Parser_then(Parser_method("expression", l.ps), LAMBDA c :
    Parser_then(Parser_consume(c.ps, "RIGHT_PAREN", "Expected ')' after if condition."),
                LAMBDA r :
    Parser_after(LAMBDA t :
        IF Parser_match_ok(t.ps, {"ELSE"})
        THEN Parser_after(LAMBDA e : POk(e.ps, If(c.node, t.node, e.node)))
                 [Parser_method("statement", Parser_match(t.ps, {"ELSE"}))]
        ELSE POk(t.ps, If(c.node, t.node, NoneNode)))
        [Parser_method("statement", r.ps)])))

\* node is the list of statements
Parser_block_loop(ps, statements) ==
    IF ~Parser_check(ps, "RIGHT_BRACE") /\ ~Parser_is_at_end(ps)
    THEN Parser_after(LAMBDA d : Parser_block_loop(d.ps, Append(statements, d.node)))
             [Parser_method("declaration", ps)]
    ELSE POk(ps, statements)

Parser_block(ps) ==
    Parser_after(LAMBDA b :
        Parser_then(Parser_consume(b.ps, "RIGHT_BRACE", "Expected '}' after block."),
                    LAMBDA c : POk(c.ps, b.node)))
        [Parser_block_loop(ps, <<>>)]

Parser_return_statement(ps) ==
    Parser_after(LAMBDA v :
        Parser_then(Parser_consume(v.ps, "SEMICOLON", "Expected ';' after return value."),
                    LAMBDA c : POk(c.ps, ReturnStmt(Parser_previous(ps), v.node))))
        [IF ~Parser_check(ps, "SEMICOLON")
         THEN Parser_method("expression", ps) ELSE POk(ps, NoneNode)]

Parser_while_statement(ps) ==
    Parser_then(Parser_consume(ps, "LEFT_PAREN", "Expected '(' after 'while'."),
                LAMBDA l :
    Parser_then(Parser_method("expression", l.ps), LAMBDA c :
    Parser_then(Parser_consume(c.ps, "RIGHT_PAREN", "Expected ')' after condition."),
                LAMBDA r :
    Parser_after(LAMBDA b : POk(b.ps, While(c.node, b.node)))
        [Parser_loop_body(r.ps)])))

Parser_expression_statement(ps) ==
    Parser_after(LAMBDA e :
        Parser_then(Parser_consume(e.ps, "SEMICOLON", "Expected ';' after expression."),
                    LAMBDA c : POk(c.ps, Expression(e.node))))
        [Parser_method("expression", ps)]

\* except ParseError: synchronize, and the declaration is None
Parser_declaration(ps) ==
    After(LAMBDA r : IF r.err THEN POk(Parser_synchronize(r.ps), NoneNode) ELSE r)
        [CASE Parser_match_ok(ps, {"CLASS"}) ->
                  Parser_class(Parser_match(ps, {"CLASS"}))
           [] Parser_match_ok(ps, {"FN"}) ->
                  Parser_function(Parser_match(ps, {"FN"}), "function")
           [] Parser_match_ok(ps, {"VAR"}) ->
                  Parser_multi_var_declaration(Parser_match(ps, {"VAR"}))
           [] OTHER -> Parser_method("statement", ps)]

RECURSIVE Parser_parse_loop(_, _)
Parser_parse_loop(ps, statements) ==
    IF ~Parser_is_at_end(ps)
    THEN Parser_after(LAMBDA d : Parser_parse_loop(d.ps, Append(statements, d.node)))
             [Parser_method("declaration", ps)]
    ELSE POk(ps, statements)

\* node is the list of statements
Parser_parse(ps) == Parser_parse_loop(ps, <<>>)

(***************************************************************************)
(* Resolver.  Its fields: scopes (a stack of dictionaries from tokens to   *)
(* VariableTracker records), current_function, current_class, repl,        *)
(* statement_index, current_constructor_type and the agent.  locals is the *)
(* interpreter's _locals dictionary, which Interpreter.resolve fills: from *)
(* the identity of a node to its scope distance.                           *)
(***************************************************************************)
NewResolver(agent, locals, repl) ==
    [scopes |-> <<>>, current_function |-> "NONE", current_class |-> "NONE",
     repl |-> repl, statement_index |-> 0, current_constructor_type |-> "NONE",
     agent |-> agent, locals |-> locals]

\* a token as a dictionary key: Token.__eq__ and __hash__ read type and lexeme
TokenKey(token) == <<token.type, token.lexeme>>
\* name is the key the entry was inserted with
VariableTracker(name, initialized) ==
    [name |-> name, initialized |-> initialized, occurence |-> 1]

\* d[key] = value of a Python dictionary
DictSet(d, key, value) == (key :> value) @@ d
EmptyDict == [x \in {} |-> 0]

\* Lox has no warn method in this source: a warning is a diagnostic that
\* leaves both flags alone
warn(agent, token, message) ==
    [agent EXCEPT !.diag = Append(@, [kind |-> "warning", line |-> token.line,
                                      where |-> token.lexeme, message |-> message])]

Interpreter_resolve(locals, expr, depth) == DictSet(locals, expr.id, depth)

Resolver_begin_scope(rs) == [rs EXCEPT !.scopes = Append(@, EmptyDict)]

\* a declaration that reports a second declaration and replaces the entry
Replacing_declare(rs, name) ==
    LET top == Len(rs.scopes)
        reported == IF TokenKey(name) \in DOMAIN rs.scopes[top]
                    THEN [rs EXCEPT !.agent = error_on_token(@, name,
                              "Already variable with this name in this scope.")]
                    ELSE rs
    IN  [reported EXCEPT !.scopes[top] = DictSet(@, TokenKey(name),
                                                  VariableTracker(name, FALSE))]

Resolver_declare(rs, name) ==
    LET top == Len(rs.scopes)
    IN  IF TokenKey(name) \in DOMAIN rs.scopes[top]
        THEN [rs EXCEPT !.agent = error_on_token(@, name,
                            "Already variable with this name in this scope.")]
        ELSE [rs EXCEPT !.scopes[top] = DictSet(@, TokenKey(name),
                                                 VariableTracker(name, FALSE))]

Resolver_define(rs, name) ==
    [rs EXCEPT !.scopes[Len(rs.scopes)][TokenKey(name)].initialized = TRUE]

\* the unused entries of a scope, each warned about once
UnusedNames(scope) ==
    {key \in DOMAIN scope : scope[key].occurence = 1 /\ key[2] \notin {"this", "super"}}

RECURSIVE WarnAll(_, _, _)
WarnAll(agent, scope, keys) ==
    IF keys = {} THEN agent
    ELSE LET key == CHOOSE x \in keys : TRUE
         IN  WarnAll(warn(agent, scope[key].name,
                          "Unused variable '" \o key[2] \o "' in the current scope."),
                     scope, keys \ {key})

Resolver_end_scope(rs) ==
    LET scope == rs.scopes[Len(rs.scopes)]
        popped == [rs EXCEPT !.scopes = SubSeq(@, 1, Len(@) - 1)]
    IN  IF rs.repl THEN popped
        ELSE [popped EXCEPT !.agent = WarnAll(@, scope, UnusedNames(scope))]

\* the innermost scope that holds the name, counted from the top of the stack
RECURSIVE ScopeDistance(_, _, _)
ScopeDistance(scopes, key, i) ==
    IF i >= Len(scopes) THEN -1
    ELSE IF key \in DOMAIN scopes[Len(scopes) - i] THEN i
    ELSE ScopeDistance(scopes, key, i + 1)

Resolver_resolve_local(rs, expr, name) ==
    LET i == ScopeDistance(rs.scopes, TokenKey(name), 0)
    IN  IF i < 0 THEN rs
        ELSE [rs EXCEPT !.scopes[Len(rs.scopes) - i][TokenKey(name)].occurence = @ + 1,
                        !.locals = Interpreter_resolve(@, expr, i)]

RECURSIVE Resolver_accept(_, _), Resolver_resolve_expr(_, _),
          Resolver_resolve_stmt(_, _),
          Resolver_resolve_stmts_loop(_, _, _), Resolver_resolve_stmts(_, _),
          Resolver_resolve_exprs(_, _, _), Resolver_resolve_function(_, _, _),
          Resolver_methods(_, _, _), Resolver_visit_class_stmt(_, _),
          Resolver_visit_call_expr(_, _), Resolver_visit_if_stmt(_, _),
          Resolver_visit_return_stmt(_, _), Resolver_visit_var_stmt(_, _),
          Resolver_multi_var(_, _, _)

\* a visit method runs its steps one after the other on the resolver: below,
\* After(LAMBDA r : later steps on r)[the earlier step]

RECURSIVE Resolver_params(_, _, _)
Resolver_params(rs, params, i) ==
    IF i > Len(params) THEN rs
    ELSE After(LAMBDA r : Resolver_params(r, params, i + 1))
             [Resolver_define(Resolver_declare(rs, params[i]), params[i])]

\* a function resolved without putting back what it found on entry
Leaking_resolve_function(rs, func, type) ==
    After(LAMBDA body : Resolver_end_scope(body))
        [After(LAMBDA entered : Resolver_resolve_stmts(entered, func.body))
            [Resolver_params(
                 Resolver_begin_scope(
                     [rs EXCEPT !.current_function = type,
                                !.current_constructor_type =
                                    IF type = "INITIALIZER" THEN "OTHER" ELSE "NONE"]),
                 func.params, 1)]]

Resolver_resolve_function(rs, func, type) ==
    After(LAMBDA body : [Resolver_end_scope(body) EXCEPT
                            !.current_function = rs.current_function,
                            !.current_constructor_type = rs.current_constructor_type])
        [After(LAMBDA entered : Resolver_resolve_stmts(entered, func.body))
            [Resolver_params(
                 Resolver_begin_scope(
                     [rs EXCEPT !.current_function = type,
                                !.current_constructor_type =
                                    IF type = "INITIALIZER" THEN "OTHER" ELSE "NONE"]),
                 func.params, 1)]]

Resolver_resolve_stmts_loop(rs, stmts, i) ==
    IF i > Len(stmts) THEN rs
    ELSE After(LAMBDA r : Resolver_resolve_stmts_loop(r, stmts, i + 1))
             [Resolver_resolve_stmt([rs EXCEPT !.statement_index = i - 1], stmts[i])]

Resolver_resolve_stmts(rs, stmts) ==
    Resolver_resolve_stmts_loop([rs EXCEPT !.statement_index = 0], stmts, 1)

Resolver_resolve_exprs(rs, exprs, i) ==
    IF i > Len(exprs) THEN rs
    ELSE After(LAMBDA r : Resolver_resolve_exprs(r, exprs, i + 1))
             [Resolver_resolve_expr(rs, exprs[i])]

Resolver_resolve(rs, statements) ==
    After(LAMBDA r : Resolver_end_scope(r))
        [Resolver_resolve_stmts(Resolver_begin_scope(rs), statements)]

Resolver_visit_call_expr(rs, expr) ==
    After(LAMBDA r1 :
              IF r1.current_constructor_type = "SUPER" /\ r1.current_function # "INITIALIZER"
              THEN [r1 EXCEPT !.agent = error_on_token(@, expr.paren,
                       "Can't use 'super' constructor in a function that is not an initializer.")]
              ELSE IF r1.current_constructor_type = "SUPER" /\ r1.statement_index # 0
              THEN [r1 EXCEPT !.agent = error_on_token(@, expr.paren,
                       "'super' constructor must be called before any other statement.")]
              ELSE Resolver_resolve_exprs(r1, expr.arguments, 1))
        [Resolver_resolve_expr(rs, expr.callee)]

Resolver_visit_super_expr(rs, expr) ==
    IF rs.current_class = "NONE"
    THEN [rs EXCEPT !.agent = error_on_token(@, expr.keyword,
              "Cannot use '" \o expr.keyword.lexeme \o "' outside class.")]
    ELSE IF rs.current_class # "SUBCLASS"
    THEN [rs EXCEPT !.agent = error_on_token(@, expr.keyword,
              "Cannot use '" \o expr.keyword.lexeme \o "' in class with no superclass.")]
    ELSE LET r == Resolver_resolve_local(rs, expr, expr.keyword)
         IN  IF expr.method = NoneNode
             THEN [r EXCEPT !.current_constructor_type = "SUPER"]
             ELSE r

Resolver_visit_this_expr(rs, expr) ==
    Resolver_resolve_local(
        IF rs.current_class = "NONE"
        THEN [rs EXCEPT !.agent = error_on_token(@, expr.keyword,
                            "Cannot use 'this' outside class.")]
        ELSE rs,
        expr, expr.keyword)

Resolver_visit_variable_expr(rs, expr) ==
    LET top == rs.scopes[Len(rs.scopes)]
        key == TokenKey(expr.name)
    IN  Resolver_resolve_local(
            IF key \in DOMAIN top /\ top[key].initialized = FALSE
            THEN [rs EXCEPT !.agent = error_on_token(@, expr.name,
                                "Cannot access before initialization.")]
            ELSE rs,
            expr, expr.name)

Resolver_methods(rs, stmt, i) ==
    IF i > Len(stmt.methods) THEN rs
    ELSE After(LAMBDA r : Resolver_methods(r, stmt, i + 1))
             [Resolver_resolve_function(rs, stmt.methods[i].function,
                  IF stmt.methods[i].name.lexeme = stmt.name.lexeme
                  THEN "INITIALIZER" ELSE "METHOD")]

Resolver_visit_class_stmt(rs, stmt) ==
    LET declared == Resolver_define(
                        Resolver_declare([rs EXCEPT !.current_class = "CLASS"], stmt.name),
                        stmt.name)
        hasSuper == ~IsNone(stmt.superclass)
        super0 == [declared EXCEPT !.current_class = "SUBCLASS"]
        super1 == IF stmt.name.lexeme = stmt.superclass.name.lexeme
                  THEN [super0 EXCEPT !.agent = error_on_token(@, stmt.superclass.name,
                                          "A class cannot inherit from itself.")]
                  ELSE super0
        super2 == Resolver_begin_scope(Resolver_resolve_expr(super1, stmt.superclass))
        super3 == [super2 EXCEPT !.scopes[Len(super2.scopes)] =
                      DictSet(@, <<"SUPER", "super">>,
                              VariableTracker(Token("SUPER", "super", NoneV, stmt.name.line),
                                              TRUE))]
        opened == Resolver_begin_scope(IF hasSuper THEN super3 ELSE declared)
        withThis == [opened EXCEPT !.scopes[Len(opened.scopes)] =
                        DictSet(@, <<"THIS", "this">>,
                                VariableTracker(Token("THIS", "this", NoneV,
                                                      stmt.name.line + 1), TRUE))]
    IN  After(LAMBDA methods :
                  [IF hasSuper THEN Resolver_end_scope(Resolver_end_scope(methods))
                   ELSE Resolver_end_scope(methods)
                   EXCEPT !.current_class = rs.current_class])
            [After(LAMBDA r : Resolver_methods(r, stmt, 1))[withThis]]

Resolver_visit_if_stmt(rs, stmt) ==
    After(LAMBDA r : Resolver_resolve_stmt(r, stmt.then_branch))
        [Resolver_resolve_expr(rs, stmt.condition)]

Resolver_visit_return_stmt(rs, stmt) ==
    LET r1 == IF rs.current_function = "NONE"
              THEN [rs EXCEPT !.agent = error_on_token(@, stmt.keyword,
                                  "Cannot return from top-level code.")]
              ELSE rs
    IN  IF IsNone(stmt.value) THEN r1
        ELSE Resolver_resolve_expr(
                 IF r1.current_function = "INITIALIZER"
                 THEN [r1 EXCEPT !.agent = error_on_token(@, stmt.keyword,
                                     "Cannot return a value from an initializer.")]
                 ELSE r1,
                 stmt.value)

Resolver_multi_var(rs, variables, i) ==
    IF i > Len(variables) THEN rs
    ELSE After(LAMBDA r : Resolver_multi_var(r, variables, i + 1))
             [Resolver_resolve_stmt(rs, variables[i])]

Resolver_visit_var_stmt(rs, stmt) ==
    IF IsNone(stmt.initializer) THEN Resolver_declare(rs, stmt.name)
    ELSE After(LAMBDA r : Resolver_define(r, stmt.name))
             [Resolver_resolve_expr(Resolver_declare(rs, stmt.name), stmt.initializer)]

\* node.accept(self): the visit method of the class of the node.  The
\* visit methods that only resolve the parts of the node are written out
\* in place.
Resolver_accept(rs, node) ==
    CASE node.k = "Assign" ->
            After(LAMBDA r : Resolver_resolve_local(r, node, node.name))
                [Resolver_resolve_expr(rs, node.value)]
      [] node.k \in {"Binary", "Comma", "Logical"} ->
            After(LAMBDA r : Resolver_resolve_expr(r, node.right))
                [Resolver_resolve_expr(rs, node.left)]
      [] node.k = "Call" -> Resolver_visit_call_expr(rs, node)
      [] node.k = "FunctionExpr" -> Resolver_resolve_function(rs, node, "FUNCTION")
      [] node.k = "Get" -> Resolver_resolve_expr(rs, node.obj)
      [] node.k = "Grouping" -> Resolver_resolve_expr(rs, node.expression)
      [] node.k = "Literal" -> rs
      [] node.k = "Set" ->
            After(LAMBDA r : Resolver_resolve_expr(r, node.obj))
                [Resolver_resolve_expr(rs, node.value)]
      [] node.k = "Super" -> Resolver_visit_super_expr(rs, node)
      [] node.k = "Ternary" ->
            After(LAMBDA r2 : Resolver_resolve_expr(r2, node.else_branch))
                [After(LAMBDA r1 : Resolver_resolve_expr(r1, node.then_branch))
                    [Resolver_resolve_expr(rs, node.condition)]]
      [] node.k = "This" -> Resolver_visit_this_expr(rs, node)
      [] node.k = "Unary" -> Resolver_resolve_expr(rs, node.right)
      [] node.k = "Variable" -> Resolver_visit_variable_expr(rs, node)
      [] node.k = "Block" ->
            After(LAMBDA r : Resolver_end_scope(r))
                [Resolver_resolve_stmts(Resolver_begin_scope(rs), node.statements)]
      [] node.k \in {"Break", "Continue"} -> rs
      [] node.k = "Class" -> Resolver_visit_class_stmt(rs, node)
      [] node.k = "Expression" -> Resolver_resolve_expr(rs, node.expression)
      [] node.k = "For" ->
            After(LAMBDA r3 : Resolver_resolve_stmt(r3, node.body))
                [After(LAMBDA r2 : Resolver_resolve_expr(r2, node.increment))
                    [After(LAMBDA r1 : Resolver_resolve_expr(r1, node.condition))
                        [Resolver_resolve_stmt(rs, node.initializer)]]]
      [] node.k = "Function" ->
            Resolver_resolve_function(
                Resolver_define(Resolver_declare(rs, node.name), node.name),
                node.function, "FUNCTION")
      [] node.k = "If" -> Resolver_visit_if_stmt(rs, node)
      [] node.k = "MultiVar" -> Resolver_multi_var(rs, node.variables, 1)
      [] node.k = "Return" -> Resolver_visit_return_stmt(rs, node)
      [] node.k = "Var" -> Resolver_visit_var_stmt(rs, node)
      [] node.k = "While" ->
            After(LAMBDA r : Resolver_resolve_stmt(r, node.body))
                [Resolver_resolve_expr(rs, node.condition)]

Resolver_resolve_expr(rs, expr) ==
    IF IsNone(expr) THEN rs ELSE Resolver_accept(rs, expr)

Resolver_resolve_stmt(rs, stmt) ==
    IF IsNone(stmt) THEN rs ELSE Resolver_accept(rs, stmt)

(***************************************************************************)
(* The interpreter and its heap.  Fields of the state st:                  *)
(*   envs         the Environment objects: [values, enclosing]; an         *)
(*                environment is named by its index, enclosing 0 is None   *)
(*   functions    the Function objects: [name, declaration, closure,       *)
(*                is_initializer]                                          *)
(*   classes      the Class objects: [name, superclass, methods]           *)
(*   instances    the Instance objects: [klass, fields]                    *)
(*   environment  Interpreter._environment; globals is environment 1       *)
(*   locals       Interpreter._locals                                      *)
(*   print_called, repl                                                    *)
(*   out          what was written to stdout: [via, value], via print or   *)
(*                the REPL echo                                            *)
(*   uninit       the Uninitialized objects made so far                    *)
(*   events       the loop events of the statement being run               *)
(*   fuel         iterations and calls left to the statement being run     *)
(*   now          what time.time() returns                                 *)
(* An evaluation returns [st, sig, value, token, message]: sig is "ok" or  *)
(* the class of the exception that left it; value is the result, or what   *)
(* a Return carries; token and message are those of a RuntimeError.        *)
(***************************************************************************)
GlobalsEnv == 1
NoToken == Token("NONE", "", NoneV, 0)

Environment(enclosing) == [values |-> EmptyDict, enclosing |-> enclosing]

NewInterpreter(repl, now) ==
    [envs |-> <<[values |-> DictSet(DictSet(EmptyDict, "clock", ClockV), "print", PrintV),
                 enclosing |-> 0]>>,
     functions |-> <<>>, classes |-> <<>>, instances |-> <<>>,
     environment |-> GlobalsEnv, locals |-> EmptyDict, print_called |-> FALSE,
     repl |-> repl, out |-> <<>>, uninit |-> 0, events |-> <<>>, fuel |-> 0,
     now |-> now]

Ok(st, value) ==
    [st |-> st, sig |-> "ok", value |-> value, token |-> NoToken, message |-> ""]
RaiseRuntimeError(st, token, message) ==
    [st |-> st, sig |-> "RuntimeError", value |-> NoneV, token |-> token,
     message |-> message]
RaiseSignal(st, sig, value) ==
    [st |-> st, sig |-> sig, value |-> value, token |-> NoToken, message |-> ""]

\* a new Environment(enclosing): the state with it, its index is Len(envs)
NewEnvironment(st, enclosing) == [st EXCEPT !.envs = Append(@, Environment(enclosing))]

RECURSIVE Environment_ancestor(_, _, _)
Environment_ancestor(envs, e, distance) ==
    IF distance = 0 \/ envs[e].enclosing = 0 THEN e
    ELSE Environment_ancestor(envs, envs[e].enclosing, distance - 1)

Environment_define(st, e, name, value) ==
    [st EXCEPT !.envs[e].values = DictSet(@, name, value)]

RECURSIVE Environment_assign(_, _, _, _)
Environment_assign(st, e, name, value) ==
    IF name.lexeme \in DOMAIN st.envs[e].values
    THEN Ok([st EXCEPT !.envs[e].values[name.lexeme] = value], NoneV)
    ELSE IF st.envs[e].enclosing # 0
    THEN Environment_assign(st, st.envs[e].enclosing, name, value)
    ELSE RaiseRuntimeError(st, name, "Undefined variable '" \o name.lexeme \o "'.")

Environment_assign_at(st, e, distance, name, value) ==
    Environment_assign(st, Environment_ancestor(st.envs, e, distance), name, value)

RECURSIVE Environment_get(_, _, _)
Environment_get(st, e, name) ==
    IF name.lexeme \in DOMAIN st.envs[e].values
    THEN IF st.envs[e].values[name.lexeme].t # "Uninitialized"
         THEN Ok(st, st.envs[e].values[name.lexeme])
         ELSE RaiseRuntimeError(st, name,
                  "Cannot access '" \o name.lexeme \o "' before initialization.")
    ELSE IF st.envs[e].enclosing # 0
    THEN Environment_get(st, st.envs[e].enclosing, name)
    ELSE RaiseRuntimeError(st, name, "Undefined variable '" \o name.lexeme \o "'.")

\* _values.get(name): None when the name is missing, and no Uninitialized check
Environment_get_at(st, e, distance, name) ==
    LET values == st.envs[Environment_ancestor(st.envs, e, distance)].values
    IN  IF name \in DOMAIN values THEN values[name] ELSE NoneV

(***************************************************************************)
(* Interpreter.stringify.  A float is a reduced fraction n/d here, and     *)
(* f"{obj:g}" is computed on it: six significant digits, trailing zeros    *)
(* dropped, exponent notation below 1e-4 and from 1e6 on.                  *)
(***************************************************************************)
RECURSIVE NatToStr(_)
NatToStr(i) ==
    IF i < 10 THEN CharAt("0123456789", i)
    ELSE NatToStr(i \div 10) \o CharAt("0123456789", i % 10)

IntToStr(i) == IF i < 0 THEN "-" \o NatToStr(-i) ELSE NatToStr(i)

\* the largest e with 10^e <= a/d, searched upward from e
RECURSIVE Log10Up(_, _, _)
Log10Up(a, d, e) == IF Pow10(e + 1) * d <= a THEN Log10Up(a, d, e + 1) ELSE e
RECURSIVE Log10Down(_, _, _)
Log10Down(a, d, e) == IF a * Pow10(e) < d THEN Log10Down(a, d, e + 1) ELSE -e
Log10(a, d) == IF a >= d THEN Log10Up(a, d, 0) ELSE Log10Down(a, d, 1)

\* i written with at least width digits
RECURSIVE ZeroPad(_, _)
ZeroPad(text, width) == IF Len(text) >= width THEN text ELSE ZeroPad("0" \o text, width)

RECURSIVE StripZeros(_)
StripZeros(text) ==
    IF Len(text) > 0 /\ SubSeq(text, Len(text), Len(text)) = "0"
    THEN StripZeros(SubSeq(text, 1, Len(text) - 1))
    ELSE text

\* the mantissa digits with the point after the first places digits
Pointed(digits, places) ==
    LET frac == StripZeros(SubSeq(digits, places + 1, Len(digits)))
    IN  SubSeq(digits, 1, places) \o (IF frac = "" THEN "" ELSE "." \o frac)

FormatG(n, d) ==
    IF n = 0 THEN "0"
    ELSE LET a == Abs(n)
             e0 == Log10(a, d)
             \* a/d rounded to six significant digits, as an integer
             scaled0 == IF e0 <= 5 THEN (2 * a * Pow10(5 - e0) + d) \div (2 * d)
                        ELSE (2 * a + d * Pow10(e0 - 5)) \div (2 * d * Pow10(e0 - 5))
             carry == scaled0 >= 1000000
             e == IF carry THEN e0 + 1 ELSE e0
             scaled == IF carry THEN scaled0 \div 10 ELSE scaled0
             digits == NatToStr(scaled)
             sign == IF n < 0 THEN "-" ELSE ""
         IN  IF e >= 0 /\ e <= 5 THEN sign \o Pointed(digits, e + 1)
             ELSE IF e < 0 /\ e >= -4
             THEN sign \o "0." \o StripZeros(ZeroPad(digits, 5 - e))
             ELSE sign \o Pointed(digits, 1) \o "e" \o (IF e < 0 THEN "-" ELSE "+")
                       \o ZeroPad(NatToStr(Abs(e)), 2)

Interpreter_stringify(st, obj) ==
    CASE obj.t = "NoneType" -> "nil"
      [] obj.t = "float" -> FormatG(obj.n, obj.d)
      [] obj.t = "bool" -> IF obj.n = 1 THEN "true" ELSE "false"
      [] obj.t = "str" -> "'" \o obj.s \o "'"
      [] obj.t = "int" -> IntToStr(obj.n)
      [] obj.t = "Function" ->
            IF st.functions[obj.n].name = "" THEN "<fn>"
            ELSE "<fn " \o st.functions[obj.n].name \o ">"
      [] obj.t = "Class" -> "<class " \o st.classes[obj.n].name \o ">"
      [] obj.t = "Instance" ->
            "<" \o st.classes[st.instances[obj.n].klass].name \o " instance>"
      [] obj.t = "Clock" -> "<native fn clock>"
      [] obj.t = "Print" -> "<native fn print>"
      [] obj.t = "Uninitialized" -> "<Uninitialized>"

\* Python's print: one line on stdout
PyPrint(st, via, text) == [st EXCEPT !.out = Append(@, [via |-> via, text |-> text])]

(***************************************************************************)
(* Python's bool(obj), a == b and the ordering of str.                     *)
(***************************************************************************)
Interpreter_is_truthy(obj) ==
    CASE obj.t = "NoneType" -> FALSE
      [] obj.t \in {"bool", "int", "float"} -> obj.n # 0
      [] obj.t = "str" -> obj.s # ""
      [] OTHER -> TRUE

\* numbers (bool, int, float) compare by value across their types; every
\* other pair is equal when it is the same object or the same text
Interpreter_is_equal(a, b) ==
    IF IsNumeric(a) /\ IsNumeric(b) THEN a.n * b.d = b.n * a.d
    ELSE a = b

\* the characters of the strings the model compares, in code point order
Ascii == " 0123456789ABCDEFGHIJKLMNOPQRSTUVWXYZ_abcdefghijklmnopqrstuvwxyz"

RECURSIVE Ord(_, _)
Ord(c, i) ==
    IF i >= Len(Ascii) THEN i ELSE IF CharAt(Ascii, i) = c THEN i ELSE Ord(c, i + 1)

RECURSIVE StrLess(_, _)
StrLess(a, b) ==
    IF b = "" THEN FALSE
    ELSE IF a = "" THEN TRUE
    ELSE IF Head(a) = Head(b) THEN StrLess(Tail(a), Tail(b))
    ELSE Ord(CharAt(a, 0), 0) < Ord(CharAt(b, 0), 0)

FloatLess(a, b) == a.n * b.d < b.n * a.d

(***************************************************************************)
(* Function, Class and Instance objects.                                   *)
(***************************************************************************)
\* Function(name, declaration, closure, is_initializer); name "" is None
NewFunction(st, name, declaration, closure, is_initializer) ==
    [st EXCEPT !.functions = Append(@, [name |-> name, declaration |-> declaration,
                                        closure |-> closure,
                                        is_initializer |-> is_initializer])]

Function_arity(st, f) == Len(st.functions[f].declaration.params)

\* a binding that defines this in the closure of the method itself
Shared_bind(st, f, instance) ==
    LET st2 == Environment_define(st, st.functions[f].closure, "this", instance)
    IN  NewFunction(st2, st.functions[f].name, st.functions[f].declaration,
                    st.functions[f].closure, st.functions[f].is_initializer)

\* the state with the bound function, whose index is Len(functions)
Function_bind(st, f, instance) ==
    LET st1 == NewEnvironment(st, st.functions[f].closure)
        st2 == Environment_define(st1, Len(st1.envs), "this", instance)
    IN  NewFunction(st2, st.functions[f].name, st.functions[f].declaration,
                    Len(st1.envs), st.functions[f].is_initializer)

\* the method's Function, or 0 for None
RECURSIVE Class_find_method(_, _, _)
Class_find_method(st, c, name) ==
    IF name \in DOMAIN st.classes[c].methods THEN st.classes[c].methods[name]
    ELSE IF st.classes[c].superclass # 0
    THEN Class_find_method(st, st.classes[c].superclass, name)
    ELSE 0

Class_arity(st, c) ==
    LET intializer == Class_find_method(st, c, st.classes[c].name)
    IN  IF intializer # 0 THEN Function_arity(st, intializer) ELSE 0

Instance_set(st, i, name, value) ==
    [st EXCEPT !.instances[i].fields = DictSet(@, name.lexeme, value)]

\* a property read that looks for a method of the class before the fields
Methods_first_get(st, i, name) ==
    LET method == Class_find_method(st, st.instances[i].klass, name.lexeme)
    IN  IF method # 0
        THEN LET st1 == Function_bind(st, method, InstanceV(i))
             IN  Ok(st1, FunctionV(Len(st1.functions)))
        ELSE IF name.lexeme \in DOMAIN st.instances[i].fields
        THEN Ok(st, st.instances[i].fields[name.lexeme])
        ELSE RaiseRuntimeError(st, name,
                 "Undefined property '" \o name.lexeme \o "'.")

Instance_get(st, i, name) ==
    IF name.lexeme \in DOMAIN st.instances[i].fields
    THEN Ok(st, st.instances[i].fields[name.lexeme])
    ELSE LET method == Class_find_method(st, st.instances[i].klass, name.lexeme)
         IN  IF method # 0
             THEN LET st1 == Function_bind(st, method, InstanceV(i))
                  IN  Ok(st1, FunctionV(Len(st1.functions)))
             ELSE RaiseRuntimeError(st, name,
                      "Undefined property '" \o name.lexeme \o "'.")

RECURSIVE DefineParams(_, _, _, _, _)
DefineParams(st, e, params, arguments, i) ==
    IF i > Len(params) THEN st
    ELSE DefineParams(Environment_define(st, e, params[i].lexeme, arguments[i]),
                      e, params, arguments, i + 1)

\* a lookup that ignores the resolver's distance and walks the chain of
\* environments from the current one: dynamic scoping, which the
\* interpreter does not do
Dynamic_lookup_variable(st, name, expr) == Environment_get(st, st.environment, name)

Interpreter_lookup_variable(st, name, expr) ==
    IF expr.id \in DOMAIN st.locals
    THEN Ok(st, Environment_get_at(st, st.environment, st.locals[expr.id], name.lexeme))
    ELSE Environment_get(st, GlobalsEnv, name)

LoopEvent(st, ev, after) == [st EXCEPT !.events = Append(@, [ev |-> ev, after |-> after])]

(***************************************************************************)
(* The visit methods.  Floats are exact fractions, so the arithmetic below *)
(* is Python's wherever the IEEE result is exact.                          *)
(***************************************************************************)
RECURSIVE Interpreter_accept(_, _), Interpreter_evaluate(_, _),
          Interpreter_execute(_, _),
          Interpreter_execute_stmts(_, _, _), Interpreter_execute_block(_, _, _),
          Interpreter_arguments(_, _, _, _), Function_call(_, _, _),
          Class_call(_, _, _), Interpreter_visit_binary_expr(_, _),
          Interpreter_visit_call_expr(_, _), Interpreter_visit_unary_expr(_, _),
          Interpreter_visit_assign_expr(_, _), Interpreter_visit_class_stmt(_, _),
          Interpreter_visit_for_stmt(_, _), Interpreter_for_loop(_, _),
          Interpreter_visit_while_stmt(_, _), Interpreter_visit_var_stmt(_, _),
          Interpreter_visit_if_stmt(_, _), Interpreter_visit_expression_stmt(_, _),
          Interpreter_multi_var(_, _, _), Interpreter_visit_logical_expr(_, _),
          Interpreter_visit_set_expr(_, _), Interpreter_visit_return_stmt(_, _)

Interpreter_execute_stmts(st, statements, i) ==
    IF i > Len(statements) THEN Ok(st, NoneV)
    ELSE LET r == Interpreter_execute(st, statements[i])
         IN  IF r.sig # "ok" THEN r
             ELSE Interpreter_execute_stmts(r.st, statements, i + 1)

\* a block without the finally clause: the environment is restored when the
\* statements complete, and on no other way out
Unprotected_execute_block(st, statements, environment) ==
    LET previous == st.environment
        r == Interpreter_execute_stmts([st EXCEPT !.environment = environment],
                                       statements, 1)
    IN  IF r.sig = "ok" THEN [r EXCEPT !.st.environment = previous] ELSE r

\* try: ... finally: self._environment = previous
Interpreter_execute_block(st, statements, environment) ==
    LET previous == st.environment
        r == Interpreter_execute_stmts([st EXCEPT !.environment = environment],
                                       statements, 1)
    IN  [r EXCEPT !.st.environment = previous]

\* a call that hands the value of a Return on, whatever the function is:
\* what Function.call would do without its two is_initializer tests
Plain_call(st, f, arguments) ==
    LET fn == st.functions[f]
        st1 == NewEnvironment(st, fn.closure)
        environment == Len(st1.envs)
        st2 == DefineParams(st1, environment, fn.declaration.params, arguments, 1)
        r == Interpreter_execute_block(st2, fn.declaration.body, environment)
    IN  CASE r.sig = "ok" -> Ok(r.st, NoneV)
          [] r.sig = "Return" -> Ok(r.st, r.value)
          [] OTHER -> r

Function_call(st, f, arguments) ==
    LET fn == st.functions[f]
        st1 == NewEnvironment(st, fn.closure)
        environment == Len(st1.envs)
        st2 == DefineParams(st1, environment, fn.declaration.params, arguments, 1)
        r == Interpreter_execute_block(st2, fn.declaration.body, environment)
        this == Environment_get_at(r.st, fn.closure, 0, "this")
    IN  CASE r.sig = "ok" -> Ok(r.st, IF fn.is_initializer THEN this ELSE NoneV)
          [] r.sig = "Return" -> Ok(r.st, IF fn.is_initializer THEN this ELSE r.value)
          [] OTHER -> r

Class_call(st, c, arguments) ==
    LET st1 == [st EXCEPT !.instances = Append(@, [klass |-> c, fields |-> EmptyDict])]
        instance == InstanceV(Len(st1.instances))
        initializer == Class_find_method(st1, c, st1.classes[c].name)
    IN  IF initializer # 0
        THEN LET st2 == Function_bind(st1, initializer, instance)
                 r == Function_call(st2, Len(st2.functions), arguments)
             IN  IF r.sig # "ok" THEN r ELSE Ok(r.st, instance)
        ELSE Ok(st1, instance)

\* the arguments evaluated from the last to the first
RECURSIVE Reversed_arguments(_, _, _, _)
Reversed_arguments(st, arguments, i, acc) ==
    IF i > Len(arguments) THEN Ok(st, acc)
    ELSE LET rest == Reversed_arguments(st, arguments, i + 1, <<>>)
             r == Interpreter_evaluate(rest.st, arguments[i])
         IN  IF rest.sig # "ok" THEN rest
             ELSE IF r.sig # "ok" THEN r
             ELSE Ok(r.st, acc \o <<r.value>> \o rest.value)

\* the list comprehension over expr.arguments
Interpreter_arguments(st, arguments, i, acc) ==
    IF i > Len(arguments) THEN Ok(st, acc)
    ELSE LET r == Interpreter_evaluate(st, arguments[i])
         IN  IF r.sig # "ok" THEN r
             ELSE Interpreter_arguments(r.st, arguments, i + 1, Append(acc, r.value))

\* an assignment that ignores the resolver's distance and walks the chain of
\* environments from the current one
Dynamic_assign_expr(st, expr) ==
    LET r == Interpreter_evaluate(st, expr.value)
    IN  IF r.sig # "ok" THEN r
        ELSE LET a == Environment_assign(r.st, r.st.environment, expr.name, r.value)
             IN  IF a.sig # "ok" THEN a ELSE Ok(a.st, r.value)

Interpreter_visit_assign_expr(st, expr) ==
    LET r == Interpreter_evaluate(st, expr.value)
    IN  IF r.sig # "ok" THEN r
        ELSE LET a == IF expr.id \in DOMAIN r.st.locals
                      THEN Environment_assign_at(r.st, r.st.environment,
                                                 r.st.locals[expr.id], expr.name, r.value)
                      ELSE Environment_assign(r.st, GlobalsEnv, expr.name, r.value)
             IN  IF a.sig # "ok" THEN a ELSE Ok(a.st, r.value)

\* a comparison or "+": two floats, or two strs, or a RuntimeError
Interpreter_float_or_str(st, operator, left, right, floats, strs) ==
    IF IsFloat(left) /\ IsFloat(right) THEN Ok(st, floats)
    ELSE IF IsStr(left) /\ IsStr(right) THEN Ok(st, strs)
    ELSE RaiseRuntimeError(st, operator, "Operands must be two numbers or two strings.")

Interpreter_check_number_operands(left, right) == IsFloat(left) /\ IsFloat(right)
Interpreter_check_number_operand(operand) == IsFloat(operand)

Interpreter_visit_binary_expr(st, expr) ==
    LET l == Interpreter_evaluate(st, expr.left)
    IN  IF l.sig # "ok" THEN l
        ELSE
        LET r == Interpreter_evaluate(l.st, expr.right)
        IN  IF r.sig # "ok" THEN r
            ELSE
            LET s2 == r.st
                left == l.value
                right == r.value
                op == expr.operator
                numbers == Interpreter_check_number_operands(left, right)
                NotNumbers == RaiseRuntimeError(s2, op, "Operands must be numbers.")
            IN  CASE op.type = "BANG_EQUAL" ->
                        Ok(s2, BoolV(~Interpreter_is_equal(left, right)))
                  [] op.type = "EQUAL_EQUAL" ->
                        Ok(s2, BoolV(Interpreter_is_equal(left, right)))
                  [] op.type = "GREATER" ->
                        Interpreter_float_or_str(s2, op, left, right,
                            BoolV(FloatLess(right, left)), BoolV(StrLess(right.s, left.s)))
                  [] op.type = "GREATER_EQUAL" ->
                        Interpreter_float_or_str(s2, op, left, right,
                            BoolV(~FloatLess(left, right)), BoolV(~StrLess(left.s, right.s)))
                  [] op.type = "LESS" ->
                        Interpreter_float_or_str(s2, op, left, right,
                            BoolV(FloatLess(left, right)), BoolV(StrLess(left.s, right.s)))
                  [] op.type = "LESS_EQUAL" ->
                        Interpreter_float_or_str(s2, op, left, right,
                            BoolV(~FloatLess(right, left)), BoolV(~StrLess(right.s, left.s)))
                  [] op.type = "MINUS" ->
                        IF numbers
                        THEN Ok(s2, FloatV(left.n * right.d - right.n * left.d,
                                           left.d * right.d))
                        ELSE NotNumbers
                  [] op.type = "PLUS" ->
                        Interpreter_float_or_str(s2, op, left, right,
                            FloatV(left.n * right.d + right.n * left.d, left.d * right.d),
                            StrV(left.s \o right.s))
                  [] op.type = "SLASH" ->
                        IF ~numbers THEN NotNumbers
                        ELSE IF right.n = 0
                        THEN RaiseRuntimeError(s2, op, "Division by zero.")
                        ELSE Ok(s2, FloatV(left.n * right.d, left.d * right.n))
                  [] op.type = "STAR" ->
                        IF numbers
                        THEN Ok(s2, FloatV(left.n * right.n, left.d * right.d))
                        ELSE NotNumbers
                  [] OTHER -> Ok(s2, NoneV)

Interpreter_visit_call_expr(st, expr) ==
    LET c == Interpreter_evaluate(st, expr.callee)
    IN  IF c.sig # "ok" THEN c
        ELSE
        LET callee == c.value
            s1 == IF callee.t = "Print" THEN [c.st EXCEPT !.print_called = TRUE] ELSE c.st
            a == Interpreter_arguments(s1, expr.arguments, 1, <<>>)
        IN  IF a.sig # "ok" THEN a
            ELSE
            LET s2 == a.st
                arguments == a.value
                arity == CASE callee.t = "Function" -> Function_arity(s2, callee.n)
                           [] callee.t = "Class" -> Class_arity(s2, callee.n)
                           [] callee.t = "Clock" -> 0
                           [] callee.t = "Print" -> 1
            IN  IF ~IsCallable(callee)
                THEN RaiseRuntimeError(s2, expr.paren, "Can only call functions and classes.")
                ELSE IF Len(arguments) # arity
                THEN RaiseRuntimeError(s2, expr.paren,
                         "Expected " \o IntToStr(arity) \o " arguments but got "
                         \o IntToStr(Len(arguments)) \o ".")
                ELSE IF s2.fuel = 0 THEN RaiseSignal(s2, "Fuel", NoneV)
                ELSE
                LET s3 == [s2 EXCEPT !.fuel = @ - 1]
                IN  CASE callee.t = "Function" -> Function_call(s3, callee.n, arguments)
                      [] callee.t = "Class" -> Class_call(s3, callee.n, arguments)
                      [] callee.t = "Clock" -> Ok(s3, IntV(s3.now))
                      [] callee.t = "Print" ->
                            Ok(PyPrint(s3, "print",
                                       IF IsStr(arguments[1]) THEN arguments[1].s
                                       ELSE Interpreter_stringify(s3, arguments[1])),
                               NoneV)

Interpreter_visit_logical_expr(st, expr) ==
    LET l == Interpreter_evaluate(st, expr.left)
    IN  IF l.sig # "ok" THEN l
        ELSE IF expr.operator.type = "OR" /\ Interpreter_is_truthy(l.value) THEN l
        ELSE IF expr.operator.type # "OR" /\ ~Interpreter_is_truthy(l.value) THEN l
        ELSE Interpreter_evaluate(l.st, expr.right)

Interpreter_visit_set_expr(st, expr) ==
    LET o == Interpreter_evaluate(st, expr.obj)
    IN  IF o.sig # "ok" THEN o
        ELSE IF o.value.t # "Instance"
        THEN RaiseRuntimeError(o.st, expr.name, "Only instances have fields.")
        ELSE LET v == Interpreter_evaluate(o.st, expr.value)
             IN  IF v.sig # "ok" THEN v
                 ELSE Ok(Instance_set(v.st, o.value.n, expr.name, v.value), v.value)

Interpreter_visit_unary_expr(st, expr) ==
    LET r == Interpreter_evaluate(st, expr.right)
        NotNumber == RaiseRuntimeError(r.st, expr.operator, "Operand must be a number.")
    IN  IF r.sig # "ok" THEN r
        ELSE CASE expr.operator.type = "BANG" ->
                      Ok(r.st, BoolV(~Interpreter_is_truthy(r.value)))
               [] expr.operator.type = "MINUS" ->
                      IF Interpreter_check_number_operand(r.value)
                      THEN Ok(r.st, FloatV(-r.value.n, r.value.d))
                      ELSE NotNumber
               [] expr.operator.type = "PLUS" ->
                      IF Interpreter_check_number_operand(r.value)
                      THEN Ok(r.st, r.value)
                      ELSE NotNumber
               [] expr.operator.type \in {"INCREMENT", "DECREMENT"} ->
                      \* _check_lvalue_operand gets the operand expression
                      IF expr.right.k \in {"Literal", "Grouping"}
                      THEN RaiseRuntimeError(r.st, expr.operator,
                                             "Cannot assign to literal.")
                      ELSE Ok(r.st, NoneV)
               [] OTHER -> Ok(r.st, NoneV)

RECURSIVE ClassMethods(_, _, _, _, _)
\* the Function objects of the methods, and the dictionary that names them
ClassMethods(st, stmt, i, methods, environment) ==
    IF i > Len(stmt.methods) THEN [st |-> st, methods |-> methods]
    ELSE LET method == stmt.methods[i]
             st1 == NewFunction(st, method.name.lexeme, method.function, environment,
                                method.name.lexeme = stmt.name.lexeme)
         IN  ClassMethods(st1, stmt, i + 1,
                          DictSet(methods, method.name.lexeme, Len(st1.functions)),
                          environment)

\* Class(stmt.name.lexeme, methods): the class has no superclass
Interpreter_visit_class_stmt(st, stmt) ==
    LET st1 == Environment_define(st, st.environment, stmt.name.lexeme, NoneV)
        m == ClassMethods(st1, stmt, 1, EmptyDict, st.environment)
        st2 == [m.st EXCEPT !.classes = Append(@, [name |-> stmt.name.lexeme,
                                                   superclass |-> 0,
                                                   methods |-> m.methods])]
    IN  Environment_assign(st2, st2.environment, stmt.name, ClassV(Len(st2.classes)))

Interpreter_visit_expression_stmt(st, stmt) ==
    LET r == Interpreter_evaluate(st, stmt.expression)
    IN  IF r.sig # "ok" THEN r
        ELSE LET st1 == IF r.st.repl /\ ~r.st.print_called
                        THEN PyPrint(r.st, "echo", Interpreter_stringify(r.st, r.value))
                        ELSE r.st
             IN  Ok([st1 EXCEPT !.print_called = FALSE], NoneV)

\* the while loop of visit_for_stmt, from the evaluation of the condition on
Interpreter_for_loop(st, stmt) ==
    LET c == IF IsNone(stmt.condition) THEN Ok(st, BoolV(TRUE))
             ELSE Interpreter_evaluate(st, stmt.condition)
    IN  IF c.sig # "ok" THEN c
        ELSE IF ~Interpreter_is_truthy(c.value) THEN Ok(c.st, NoneV)
        ELSE IF c.st.fuel = 0 THEN RaiseSignal(c.st, "Fuel", NoneV)
        ELSE
        LET b == Interpreter_execute([c.st EXCEPT !.fuel = @ - 1], stmt.body)
            \* finally: the increment is evaluated however the body was left
            f == IF IsNone(stmt.increment) THEN Ok(b.st, NoneV)
                 ELSE Interpreter_evaluate(LoopEvent(b.st, "increment", b.sig),
                                           stmt.increment)
        IN  IF b.sig = "Fuel" THEN b
            ELSE IF f.sig # "ok" THEN f
            ELSE CASE b.sig = "Break" -> Ok(LoopEvent(f.st, "break", b.sig), NoneV)
                   [] b.sig \in {"ok", "Continue"} -> Interpreter_for_loop(f.st, stmt)
                   [] OTHER -> [b EXCEPT !.st = f.st]

Interpreter_visit_for_stmt(st, stmt) ==
    LET i == Interpreter_execute(st, stmt.initializer)
    IN  IF i.sig # "ok" THEN i ELSE Interpreter_for_loop(i.st, stmt)

Interpreter_visit_if_stmt(st, stmt) ==
    LET c == Interpreter_evaluate(st, stmt.condition)
    IN  IF c.sig # "ok" THEN c
        ELSE IF Interpreter_is_truthy(c.value) /\ ~IsNone(stmt.then_branch)
        THEN Interpreter_execute(c.st, stmt.then_branch)
        ELSE IF ~IsNone(stmt.else_branch)
        THEN Interpreter_execute(c.st, stmt.else_branch)
        ELSE Ok(c.st, NoneV)

Interpreter_multi_var(st, variables, i) ==
    IF i > Len(variables) THEN Ok(st, NoneV)
    ELSE LET r == Interpreter_execute(st, variables[i])
         IN  IF r.sig # "ok" THEN r ELSE Interpreter_multi_var(r.st, variables, i + 1)

Interpreter_visit_return_stmt(st, stmt) ==
    IF IsNone(stmt.value) THEN RaiseSignal(st, "Return", NoneV)
    ELSE LET r == Interpreter_evaluate(st, stmt.value)
         IN  IF r.sig # "ok" THEN r ELSE RaiseSignal(r.st, "Return", r.value)

Interpreter_visit_var_stmt(st, stmt) ==
    LET st1 == [st EXCEPT !.uninit = @ + 1]
        st2 == Environment_define(st1, st1.environment, stmt.name.lexeme,
                                  UninitializedV(st1.uninit))
    IN  IF IsNone(stmt.initializer) THEN Ok(st2, NoneV)
        ELSE LET r == Interpreter_evaluate(st2, stmt.initializer)
             IN  IF r.sig # "ok" THEN r
                 ELSE Environment_assign(r.st, r.st.environment, stmt.name, r.value)

Interpreter_visit_while_stmt(st, stmt) ==
    LET c == Interpreter_evaluate(st, stmt.condition)
    IN  IF c.sig # "ok" THEN c
        ELSE IF ~Interpreter_is_truthy(c.value) THEN Ok(c.st, NoneV)
        ELSE IF c.st.fuel = 0 THEN RaiseSignal(c.st, "Fuel", NoneV)
        ELSE
        LET b == Interpreter_execute([c.st EXCEPT !.fuel = @ - 1], stmt.body)
        IN  CASE b.sig = "Break" -> Ok(b.st, NoneV)
              [] b.sig \in {"ok", "Continue"} -> Interpreter_visit_while_stmt(b.st, stmt)
              [] OTHER -> b

\* node.accept(self): the visit method of the class of the node.  The
\* visit methods that are one statement long are written out in place.
Interpreter_accept(st, node) ==
    CASE node.k = "Assign" -> Interpreter_visit_assign_expr(st, node)
      [] node.k = "Binary" -> Interpreter_visit_binary_expr(st, node)
      [] node.k = "Call" -> Interpreter_visit_call_expr(st, node)
      [] node.k = "Comma" ->
            LET l == Interpreter_evaluate(st, node.left)
            IN  IF l.sig # "ok" THEN l ELSE Interpreter_evaluate(l.st, node.right)
      [] node.k = "FunctionExpr" ->
            LET st1 == NewFunction(st, "", node, st.environment, FALSE)
            IN  Ok(st1, FunctionV(Len(st1.functions)))
      [] node.k = "Get" ->
            LET o == Interpreter_evaluate(st, node.obj)
            IN  IF o.sig # "ok" THEN o
                ELSE IF o.value.t = "Instance" THEN Instance_get(o.st, o.value.n, node.name)
                ELSE RaiseRuntimeError(o.st, node.name, "Only instances have properties.")
      [] node.k = "Grouping" -> Interpreter_evaluate(st, node.expression)
      [] node.k = "Literal" -> Ok(st, node.value)
      [] node.k = "Logical" -> Interpreter_visit_logical_expr(st, node)
      [] node.k = "Set" -> Interpreter_visit_set_expr(st, node)
      [] node.k = "Ternary" ->
            LET c == Interpreter_evaluate(st, node.condition)
            IN  IF c.sig # "ok" THEN c
                ELSE IF Interpreter_is_truthy(c.value)
                THEN Interpreter_evaluate(c.st, node.then_branch)
                ELSE Interpreter_evaluate(c.st, node.else_branch)
      [] node.k = "This" -> Interpreter_lookup_variable(st, node.keyword, node)
      [] node.k = "Unary" -> Interpreter_visit_unary_expr(st, node)
      [] node.k = "Variable" -> Interpreter_lookup_variable(st, node.name, node)
      [] node.k = "Block" ->
            LET st1 == NewEnvironment(st, st.environment)
            IN  Interpreter_execute_block(st1, node.statements, Len(st1.envs))
      [] node.k = "Break" -> RaiseSignal(st, "Break", NoneV)
      [] node.k = "Class" -> Interpreter_visit_class_stmt(st, node)
      [] node.k = "Continue" -> RaiseSignal(st, "Continue", NoneV)
      [] node.k = "Expression" -> Interpreter_visit_expression_stmt(st, node)
      [] node.k = "For" -> Interpreter_visit_for_stmt(st, node)
      [] node.k = "Function" ->
            LET st1 == NewFunction(st, node.name.lexeme, node.function,
                                   st.environment, FALSE)
            IN  Ok(Environment_define(st1, st1.environment, node.name.lexeme,
                                      FunctionV(Len(st1.functions))),
                   NoneV)
      [] node.k = "If" -> Interpreter_visit_if_stmt(st, node)
      [] node.k = "MultiVar" -> Interpreter_multi_var(st, node.variables, 1)
      [] node.k = "Return" -> Interpreter_visit_return_stmt(st, node)
      [] node.k = "Var" -> Interpreter_visit_var_stmt(st, node)
      [] node.k = "While" -> Interpreter_visit_while_stmt(st, node)

Interpreter_evaluate(st, expr) == Interpreter_accept(st, expr)

Interpreter_execute(st, stmt) ==
    IF IsNone(stmt) THEN Ok(st, NoneV) ELSE Interpreter_accept(st, stmt)

(***************************************************************************)
(* The driver (class Lox).  One execution of the program is a session: a   *)
(* script file, or the lines typed at the prompt.  Lox.run is followed     *)
(* through its phases by pc:                                               *)
(*   idle       before run is called on the file or on the next line       *)
(*   scan, parse, resolve, interpret   the phase of run that comes next    *)
(*   ran        run has returned                                           *)
(*   exited     the process has ended with exit_code                       *)
(*   crashed    a Python exception nobody catches left run                 *)
(*   diverged   the statement ran out of fuel: the program does not stop   *)
(*              within the bound of the model                              *)
(* The interpreter executes the top-level statements one step at a time.   *)
(***************************************************************************)
VARIABLES session,          \* [mode, lines, now]: the input, fixed at the start
          pc,
          line_no,          \* the line of the session run is working on
          source,           \* the argument of run
          tokens,           \* the scanner's result
          statements,       \* the parser's result
          nid,              \* the identity the next syntax node gets
          agent,            \* Lox.had_error, Lox.had_runtime_error, diagnostics
          interp,           \* Lox._interpreter
          stmt_index,       \* the top-level statement interpret executes next
          exit_code,        \* -1 while the process runs
          dumped,           \* lines of the token dump run has printed
          interpret_called, \* history: run has called interpret for this source
          at_run,           \* history: the environments and output when run began
          parser,           \* the Parser's current and loop_depth
          resolver          \* the Resolver's scopes and context fields

vars == <<session, pc, line_no, source, tokens, statements, nid, agent, interp,
          stmt_index, exit_code, dumped, interpret_called, at_run, parser,
          resolver>>

\* the fields of a Parser and of a Resolver the driver's state keeps
ParserFields(ps) == [current |-> ps.current, loop_depth |-> ps.loop_depth]
ResolverFields(rs) ==
    [scopes |-> rs.scopes, current_function |-> rs.current_function,
     current_class |-> rs.current_class,
     current_constructor_type |-> rs.current_constructor_type]

Snapshot(i) == [envs |-> i.envs, out |-> i.out, instances |-> i.instances]

\* Lox.execute, then run_file reads the file or run_prompt reads a line
StartRun ==
    /\ pc = "idle"
    /\ source' = IF session.mode = "file" THEN session.lines[line_no]
                 ELSE session.lines[line_no] \o ";"
    /\ pc' = "scan"
    /\ interpret_called' = FALSE
    /\ at_run' = Snapshot(interp)
    /\ interp' = [interp EXCEPT !.events = <<>>]
    /\ UNCHANGED <<session, line_no, tokens, statements, nid, agent, stmt_index,
                   exit_code, dumped,
                   parser, resolver>>

\* scanner.scan_tokens() and the dump of the tokens
Scan ==
    /\ pc = "scan"
    /\ \E sc \in {Scanner_scan_tokens(NewScanner(source, agent))} :
           /\ tokens' = sc.tokens
           /\ agent' = sc.agent
           /\ pc' = IF sc.crashed THEN "crashed" ELSE "parse"
           /\ dumped' = IF sc.crashed THEN dumped ELSE dumped + Len(sc.tokens)
    /\ UNCHANGED <<session, line_no, source, statements, nid, interp, stmt_index,
                   exit_code, interpret_called, at_run,
                   parser, resolver>>

\* a run that never stops on an error
NeverStop(a) == FALSE

\* the check of had_error that follows the parser and the resolver
StopOnError(a) == a.had_error

\* parser.parse(), and the return on a syntax error
Parse ==
    /\ pc = "parse"
    /\ \E r \in {Parser_parse(NewParser(tokens, agent, nid))} :
           /\ statements' = r.node
           /\ parser' = ParserFields(r.ps)
           /\ agent' = r.ps.agent
           /\ nid' = r.ps.nid
           /\ pc' = IF StopOnError(r.ps.agent) THEN "ran" ELSE "resolve"
    /\ UNCHANGED <<session, line_no, source, tokens, interp, stmt_index, exit_code,
                   dumped, interpret_called, at_run,
                   resolver>>

\* Resolver(cls, cls._interpreter).resolve(statements), and the return on a
\* resolution error
Resolve ==
    /\ pc = "resolve"
    /\ \E rs \in {Resolver_resolve(NewResolver(agent, interp.locals, FALSE),
                                     statements)} :
           /\ agent' = rs.agent
           /\ resolver' = ResolverFields(rs)
           /\ interp' = [interp EXCEPT !.locals = rs.locals]
           /\ pc' = IF StopOnError(rs.agent) THEN "ran" ELSE "interpret"
           /\ interpret_called' = ~StopOnError(rs.agent)
    /\ stmt_index' = 1
    /\ UNCHANGED <<session, line_no, source, tokens, statements, nid, exit_code,
                   dumped, at_run,
                   parser>>

\* one round of the loop of Interpreter.interpret: a top-level statement
Execute ==
    /\ pc = "interpret"
    /\ stmt_index <= Len(statements)
    /\ \E r \in {Interpreter_execute([interp EXCEPT !.fuel = MaxFuel],
                                       statements[stmt_index])} :
           /\ interp' = r.st
           /\ agent' = IF r.sig = "RuntimeError"
                       THEN runtime_error(agent, r.token, r.message)
                       ELSE agent
           /\ pc' = CASE r.sig = "ok" -> "interpret"
                      [] r.sig = "RuntimeError" -> "ran"
                      [] r.sig = "Fuel" -> "diverged"
                      [] OTHER -> "crashed"
           /\ stmt_index' = IF r.sig = "ok" THEN stmt_index + 1 ELSE stmt_index
    /\ UNCHANGED <<session, line_no, source, tokens, statements, nid, exit_code,
                   dumped, interpret_called, at_run,
                   parser, resolver>>

\* the loop of Interpreter.interpret ends, run returns
EndInterpret ==
    /\ pc = "interpret"
    /\ stmt_index > Len(statements)
    /\ pc' = "ran"
    /\ UNCHANGED <<session, line_no, source, tokens, statements, nid, agent, interp,
                   stmt_index, exit_code, dumped, interpret_called, at_run,
                   parser, resolver>>

\* run_file after run: the exit code
ExitFile ==
    /\ pc = "ran"
    /\ session.mode = "file"
    /\ exit_code' = IF agent.had_error THEN 65
                    ELSE IF agent.had_runtime_error THEN 70 ELSE 0
    /\ pc' = "exited"
    /\ UNCHANGED <<session, line_no, source, tokens, statements, nid, agent, interp,
                   stmt_index, dumped, interpret_called, at_run,
                   parser, resolver>>

\* run_prompt after run: the finally clause, then the next line
NextLine ==
    /\ pc = "ran"
    /\ session.mode = "prompt"
    /\ line_no < Len(session.lines)
    /\ agent' = [agent EXCEPT !.had_error = FALSE, !.had_runtime_error = FALSE]
    /\ line_no' = line_no + 1
    /\ pc' = "idle"
    /\ UNCHANGED <<session, source, tokens, statements, nid, interp, stmt_index,
                   exit_code, dumped, interpret_called, at_run,
                   parser, resolver>>

\* run_prompt after the last line: the user interrupts the prompt
Interrupt ==
    /\ pc = "ran"
    /\ session.mode = "prompt"
    /\ line_no = Len(session.lines)
    /\ agent' = [agent EXCEPT !.had_error = FALSE, !.had_runtime_error = FALSE]
    /\ exit_code' = 0
    /\ pc' = "exited"
    /\ UNCHANGED <<session, line_no, source, tokens, statements, nid, interp,
                   stmt_index, dumped, interpret_called, at_run,
                   parser, resolver>>

\* an exception nobody catches ends the process; at the prompt the finally
\* clause runs on the way out
Traceback ==
    /\ pc = "crashed"
    /\ exit_code = -1
    /\ exit_code' = 1
    /\ agent' = IF session.mode = "prompt"
                THEN [agent EXCEPT !.had_error = FALSE, !.had_runtime_error = FALSE]
                ELSE agent
    /\ UNCHANGED <<session, pc, line_no, source, tokens, statements, nid, interp,
                   stmt_index, dumped, interpret_called, at_run,
                   parser, resolver>>

(***************************************************************************)
(* The sessions the model runs.  A source text is built from its parts, so *)
(* that the properties below can name the programs they are about.         *)
(***************************************************************************)
File(text) == [mode |-> "file", lines |-> <<text>>, now |-> 1000]
Prompt(lines) == [mode |-> "prompt", lines |-> lines, now |-> 1000]

\* the float literal of the natural number k
Num(k) == NatToStr(k) \o ".0"

RECURSIVE Repeat(_, _)
Repeat(text, k) == IF k = 0 THEN "" ELSE text \o Repeat(text, k - 1)

\* a for loop over i = 0 .. bound-1 whose increment counts in n, and whose
\* body leaves by break or by continue when i reaches 2
ForLoopSource(bound, exit) ==
    "var n = 0.0; for (var i = 0.0; i < " \o Num(bound) \o "; n = n + 1.0) { "
    \o "i = i + 1.0; if (i == 2.0) " \o exit \o "; } print(n);"

ForSessions == {File(ForLoopSource(b, exit)) : b \in 1..MaxK, exit \in {"break", "continue"}}

\* the literals the truthiness and equality programs are written with
Literals == {"nil", "false", "true", "0", "1", "0.0", "1.0", "\"\"", "\"1\"", "clock"}

\* a program that prints "true" when the value of lit is truthy, for each
\* construct that tests truthiness
TruthForms == {"!", "if", "while", "for", "?:", "&&", "||"}
TruthSource(form, lit) ==
    CASE form = "!" -> "print(!!" \o lit \o ");"
      [] form = "if" -> "if (" \o lit \o ") print(true); else print(false);"
      [] form = "while" ->
            "var r = false; while (" \o lit \o ") { r = true; break; } print(r);"
      [] form = "for" ->
            "var r = false; for (; " \o lit \o ";) { r = true; break; } print(r);"
      [] form = "?:" -> "print(" \o lit \o " ? true : false);"
      [] form = "&&" -> "print((" \o lit \o " && 7.0) == 7.0);"
      [] form = "||" -> "print((" \o lit \o " || 7.0) != 7.0);"

TruthSessions == {File(TruthSource(form, lit)) : form \in TruthForms, lit \in Literals}

\* a == b, b == a and a != b
EqualitySource(a, b) ==
    "print(" \o a \o " == " \o b \o "); print(" \o b \o " == " \o a \o "); print("
    \o a \o " != " \o b \o ");"

EqualitySessions == {File(EqualitySource(a, b)) : a \in Literals, b \in Literals}

\* the counter of the closure-capture property, called k times; zero and one
\* are the literals the counter starts from and steps by
CounterSource(zero, one, k) ==
    "fn makeCounter(){var i=" \o zero \o "; fn c(){i=i+" \o one \o "; return i;} return c;} "
    \o "var f = makeCounter(); " \o Repeat("print(f()); ", k)

CounterSessions ==
    {File(CounterSource("0", "1", k)) : k \in 1..MaxK}
    \cup {File(CounterSource("0.0", "1.0", k)) : k \in 1..MaxK}

\* a closure in a block reads a; a var a is declared in the block between
\* two calls of it.  The outer a is a global, or a local of an outer block.
ShadowInner ==
    "{ fn showA() { print(a); } showA(); var a = \"inner\"; showA(); print(a); }"
ShadowSources == {"var a = \"outer\"; " \o ShadowInner,
                  "{ var a = \"outer\"; " \o ShadowInner \o " }"}
ShadowSessions == {File(text) : text \in ShadowSources}

\* a class A whose initializer has the given body, an instance a of it, and
\* a second call of the initializer, bound to a; without is the class with no
\* initializer at all
InitializerBodies == {"this.x = 1.0;",
                      "this.x = 1.0; return; this.x = 2.0;",
                      "this.x = 1.0; if (false) {} else return 5.0;"}
ClassSource(body) ==
    "class A { A() { " \o body \o " } } var a = A(); print(a); print(a.x); "
    \o "print(a.A() == a);"
ClassWithout == "class A {} var a = A(); print(a);"
ClassSessions == {File(ClassSource(body)) : body \in InitializerBodies}
                 \cup {File(ClassWithout)}

\* programs with a return statement; reported says whether the statement is
\* one the resolver is to report
ReturnCases ==
    {[text |-> "return;", reported |-> TRUE],
     [text |-> "return 1.0;", reported |-> TRUE],
     [text |-> "{ return; }", reported |-> TRUE],
     [text |-> "if (true) return;", reported |-> TRUE],
     [text |-> "if (true) {} else return;", reported |-> TRUE],
     [text |-> "if (false) {} else return;", reported |-> TRUE],
     [text |-> "fn f() { return 1.0; } print(f());", reported |-> FALSE],
     [text |-> "fn f() { if (false) {} else return 1.0; } print(f());", reported |-> FALSE],
     [text |-> "class A { A() { return; } } print(A());", reported |-> FALSE],
     [text |-> "class A { A() { return 1.0; } } print(A());", reported |-> TRUE],
     [text |-> "class A { A() { if (true) {} else return 1.0; } } print(A());",
      reported |-> TRUE],
     [text |-> "class A { m() { return 1.0; } } print(A().m());", reported |-> FALSE],
     [text |-> "class A { A() { fn g() { return 1.0; } print(g()); } } print(A());",
      reported |-> FALSE]}
ReturnSessions == {File(c.text) : c \in ReturnCases}

\* programs the scanner, the parser or the resolver reports an error in,
\* after statements that would print and bind a global
StaticErrorEndings == {"@", "print(x;", "return;", "{ var a = 1.0; var a = 2.0; }",
                       "print(this);", "{ var y = y; }", "\"open"}
StaticErrorSource(ending) == "var x = 1.0; print(x); " \o ending
StaticErrorSessions ==
    {File(StaticErrorSource(e)) : e \in StaticErrorEndings}
    \cup {Prompt(<<"var x = 1.0", StaticErrorSource(e), "print(x)">>) :
              e \in StaticErrorEndings}

\* break and continue outside any loop
LoopContextSources == {"break;", "continue;", "break; print(\"ran\");",
                       "var x = 1.0; continue; print(x);"}
LoopContextSessions == {File(text) : text \in LoopContextSources}

\* an operator applied to two numeric literals
NumLiterals == {"6", "1.5", "2.0"}
NumOperators == {"+", "-", "*", "/", "<", "<=", ">", ">="}
NumericSource(a, op, b) == "print(" \o a \o " " \o op \o " " \o b \o ");"
NumericSessions ==
    {File(NumericSource(a, op, b)) : a \in NumLiterals, op \in NumOperators,
                                     b \in NumLiterals}
    \cup {File("print(1+2*3);"), File("print(1.0+2.0*3.0);")}

\* programs whose run ends in a runtime error: what they print before it and
\* the line of the token the error carries; typed: a line one can type at the
\* prompt.  The file holds the text and a closing semicolon, which the prompt
\* adds itself.
RuntimeErrorCases ==
    {[text |-> "1/0", out |-> <<>>, line |-> 1, typed |-> TRUE],
     [text |-> "print(1.0); print(1.0/0.0); print(2.0)",
      out |-> <<"1">>, line |-> 1, typed |-> TRUE],
     [text |-> "{ print(1.0); print(-\"a\"); print(2.0); } print(3.0)",
      out |-> <<"1">>, line |-> 1, typed |-> TRUE],
     [text |-> "fn f() { print(1.0); nil(); print(2.0); } f(); print(3.0)",
      out |-> <<"1">>, line |-> 1, typed |-> TRUE],
     [text |-> "print(1.0);\nvar x = 1.0/0.0;\nprint(x)",
      out |-> <<"1">>, line |-> 2, typed |-> FALSE],
     [text |-> "print(undefined)", out |-> <<>>, line |-> 1, typed |-> TRUE],
     [text |-> "for (var i = 0.0; i < 1.0; print(\"after\")) { nil(); } print(3.0)",
      out |-> <<>>, line |-> 1, typed |-> TRUE]}
RuntimeErrorSessions ==
    {File(c.text \o ";") : c \in RuntimeErrorCases}
    \cup {Prompt(<<c.text, "print(9.0)">>) : c \in {x \in RuntimeErrorCases : x.typed}}

\* calls: what the program prints, its exit code, the message of its runtime
\* error, and the environments and instances it has made when it ends.  f
\* and the initializer of A print when their body runs.
CallPrefix ==
    "fn f(a) { print(\"body\"); return a; } class A { A(x) { print(\"init\"); } } "
CallCases ==
    {[text |-> "print(f(7.0));", out |-> <<"body", "7">>, code |-> 0,
      message |-> "", envs |-> 2, instances |-> 0],
     [text |-> "print(f(f(3.0)));", out |-> <<"body", "body", "3">>, code |-> 0,
      message |-> "", envs |-> 3, instances |-> 0],
     [text |-> "print(A(5.0));", out |-> <<"init", "<A instance>">>, code |-> 0,
      message |-> "", envs |-> 3, instances |-> 1],
     [text |-> "print(f(print(1.0), print(2.0)));", out |-> <<"1", "2">>, code |-> 70,
      message |-> "Expected 1 arguments but got 2.", envs |-> 1, instances |-> 0],
     [text |-> "f();", out |-> <<>>, code |-> 70,
      message |-> "Expected 1 arguments but got 0.", envs |-> 1, instances |-> 0],
     [text |-> "A(print(1.0), print(2.0));", out |-> <<"1", "2">>, code |-> 70,
      message |-> "Expected 1 arguments but got 2.", envs |-> 1, instances |-> 0],
     [text |-> "clock(print(1.0));", out |-> <<"1">>, code |-> 70,
      message |-> "Expected 0 arguments but got 1.", envs |-> 1, instances |-> 0],
     [text |-> "nil(print(1.0), print(2.0));", out |-> <<"1", "2">>, code |-> 70,
      message |-> "Can only call functions and classes.", envs |-> 1, instances |-> 0],
     [text |-> "\"text\"(print(1.0));", out |-> <<"1">>, code |-> 70,
      message |-> "Can only call functions and classes.", envs |-> 1, instances |-> 0],
     [text |-> "f(1.0)(print(2.0));", out |-> <<"body", "2">>, code |-> 70,
      message |-> "Can only call functions and classes.", envs |-> 2, instances |-> 0],
     [text |-> "g(print(1.0));", out |-> <<>>, code |-> 70,
      message |-> "Undefined variable 'g'.", envs |-> 1, instances |-> 0]}
CallSessions == {File(CallPrefix \o c.text) : c \in CallCases}

\* a is declared without an initializer and read before anything is assigned
\* to it: in a script from an inner scope, where the resolver gives the
\* reference a distance, and at the prompt on a later line, where the
\* reference is looked up in globals
UninitializedScripts == {"var a; { print(a); }",
                         "var a; fn f() { return a; } print(f());",
                         "{ var a; { var b = a; print(b); } }",
                         "var a; { print(!a); }"}
UninitializedLines == {<<"var a", "print(a)">>, <<"var a", "a">>,
                       <<"var a", "print(!a)">>}
UninitializedSessions ==
    {File(text) : text \in UninitializedScripts}
    \cup {Prompt(lines) : lines \in UninitializedLines}

\* a class declared with a superclass: out is what the script prints when
\* method lookup walks the superclass chain
InheritanceCases ==
    {[text |-> "class A { m() { print(\"A\"); } } class B < A {} B().m();",
      out |-> <<"A">>],
     [text |-> "class A { m() { print(\"A\"); } } class B < A { m() { print(\"B\"); } } B().m();",
      out |-> <<"B">>],
     [text |-> "class A { m() { print(\"A\"); } } class B < A {} class C < B {} C().m();",
      out |-> <<"A">>],
     [text |-> "class A { m() { print(\"A\"); } } class B < A { n() { print(\"n\"); } } var b = B(); b.n(); b.m();",
      out |-> <<"n", "A">>]}
InheritanceSessions == {File(c.text) : c \in InheritanceCases}

\* scripts and prompt lines that write and read properties of two instances
\* a and b of a class with a method m; out is what is printed, message the
\* runtime error the session ends with, fields the (name, text of the value)
\* pairs each instance holds at the end
PropertyPrefix == "class A { m() { return this; } } var a = A(); var b = A(); "
PropertyCases ==
    {[text |-> "a.x = 1.0; print(a.x); a.m = 2.0; print(a.m); print(b.m() == b);",
      out |-> <<"1", "2", "true">>, message |-> "",
      fields |-> <<{<<"x", "1">>, <<"m", "2">>}, {}>>],
     [text |-> "print(a.m() == a); print(a.m() == b); print(b.m() == b);",
      out |-> <<"true", "false", "true">>, message |-> "",
      fields |-> <<{}, {}>>],
     [text |-> "a.x = 1.0; b.x = 3.0; print(a.x); print(b.x); a.x = nil; print(a.x); print(b.x);",
      out |-> <<"1", "3", "nil", "3">>, message |-> "",
      fields |-> <<{<<"x", "nil">>}, {<<"x", "3">>}>>],
     [text |-> "a.x = 1.0; print(b.x); print(a.x);",
      out |-> <<>>, message |-> "Undefined property 'x'.",
      fields |-> <<{<<"x", "1">>}, {}>>],
     [text |-> "a.x = 1.0; a.x = 2.0; print(a.x); print(a.y);",
      out |-> <<"2">>, message |-> "Undefined property 'y'.",
      fields |-> <<{<<"x", "2">>}, {}>>],
     [text |-> "b.m = a.m; print(b.m() == a); print(a.m() == a);",
      out |-> <<"true", "true">>, message |-> "",
      fields |-> <<{}, {<<"m", "<fn m>">>}>>]}
PropertyLines ==
    <<"class A { m() { return this; } } var a = A(); var b = A(); a.x = 1.0",
      "print(a.y)", "print(a.x)", "print(b.x)">>
PropertySessions ==
    {File(PropertyPrefix \o c.text) : c \in PropertyCases}
    \cup {Prompt(PropertyLines)}

\* lines typed at the prompt whose statements are expression statements; out
\* is what is written when each expression statement is echoed exactly when
\* its evaluation did not call print
EchoCases ==
    {[lines |-> <<"1.0", "2.0 + 3.0">>, out |-> <<"1", "5">>],
     [lines |-> <<"print(1.0)", "2.0">>, out |-> <<"1", "2">>],
     [lines |-> <<"print(1.0); 2.0", "print(3.0)">>, out |-> <<"1", "2", "3">>],
     [lines |-> <<"nil", "true == false">>, out |-> <<"nil", "false">>],
     [lines |-> <<"print(1.0/0.0)", "2.0">>, out |-> <<"2">>],
     [lines |-> <<"print(nil())", "2.0", "3.0">>, out |-> <<"2", "3">>],
     [lines |-> <<"var x = print(1.0)", "3.0">>, out |-> <<"1", "3">>],
     [lines |-> <<"fn f() { print(\"x\"); } f()", "2.0">>, out |-> <<"x", "2">>]}
EchoSessions == {Prompt(c.lines) : c \in EchoCases}

\* a line with an error typed at the prompt, followed by a valid line:
\* lexical errors (a character that is no token, a string and a block comment
\* that are not closed), parse errors, resolve errors and runtime errors
ErrorLines == {"@", "\"abc", "/*", "1.0 /*",
               "1.0 +", "(", "var",
               "return 1.0", "this", "if (false) {} else return",
               "1.0/0.0", "nil()", "undefined"}
ErrorLineSessions == {Prompt(<<l, "print(9.0)">>) : l \in ErrorLines}

\* programs with variables that are declared and never used; unused is the
\* set of names whose scope entry has seen nothing but the declaration, out
\* what the program prints
UnusedCases ==
    {[text |-> "var a = 1.0; print(2.0)", unused |-> {"a"}, out |-> <<"2">>],
     [text |-> "var a = 1.0; print(a)", unused |-> {}, out |-> <<"1">>],
     [text |-> "var a = 1.0; a = 2.0; print(3.0)", unused |-> {}, out |-> <<"3">>],
     [text |-> "{ var a = 1.0; var b = 2.0; print(b); } print(3.0)",
      unused |-> {"a"}, out |-> <<"2", "3">>],
     [text |-> "{ var a = 1.0; { var a = 2.0; print(a); } } print(3.0)",
      unused |-> {"a"}, out |-> <<"2", "3">>],
     [text |-> "{ var a = 1.0; var b = 2.0; } print(3.0)",
      unused |-> {"a", "b"}, out |-> <<"3">>],
     [text |-> "fn f(x) { return 1.0; } print(f(2.0))", unused |-> {"x"}, out |-> <<"1">>],
     [text |-> "fn f(x) { var y = x; } print(f(2.0))", unused |-> {"y"}, out |-> <<"nil">>],
     [text |-> "class A { m() { return 1.0; } } print(A().m())",
      unused |-> {}, out |-> <<"1">>],
     [text |-> "class A { m() { return 1.0; } } print(2.0)",
      unused |-> {"A"}, out |-> <<"2">>]}
UnusedSessions ==
    {File(c.text \o ";") : c \in UnusedCases} \cup {Prompt(<<c.text>>) : c \in UnusedCases}

\* scripts whose if statement refers to a local binding in one of its
\* branches; the same reference is put in the then branch and in the else
\* branch.  out is what the script prints when the reference reaches the
\* local binding, resolved the number of references the resolver gives a
\* distance, unused the names it warns about
BranchOf(taken, stmt) ==
    IF taken = "then" THEN "if (true) " \o stmt \o " else {}"
    ELSE "if (false) {} else " \o stmt
BranchCases ==
    {[text |-> [b \in {"then", "else"} |->
                   "var a = \"global\"; { var a = \"local\"; "
                   \o BranchOf(b, "print(a);") \o " } print(a);"],
      out |-> <<"local", "global">>, resolved |-> 2, unused |-> {}],
     [text |-> [b \in {"then", "else"} |->
                   "var a = \"global\"; { var a = \"local\"; "
                   \o BranchOf(b, "a = \"changed\";") \o " print(a); } print(a);"],
      out |-> <<"changed", "global">>, resolved |-> 3, unused |-> {}],
     [text |-> [b \in {"then", "else"} |->
                   "{ var a = \"local\"; " \o BranchOf(b, "print(a);") \o " }"],
      out |-> <<"local">>, resolved |-> 1, unused |-> {}],
     [text |-> [b \in {"then", "else"} |->
                   "class A { m() { " \o BranchOf(b, "return this;")
                   \o " } } var a = A(); print(a.m() == a);"],
      out |-> <<"true">>, resolved |-> 4, unused |-> {}]}
BranchSessions == {File(c.text[b]) : c \in BranchCases, b \in {"then", "else"}}

\* sources with a block comment; lexemes and lines are the tokens before EOF
\* of the source when the comment ends at the first */ after its opening and
\* nothing in it is a token
CommentCases ==
    {[text |-> "/* x */ 1.0;", lexemes |-> <<"1.0", ";">>, lines |-> <<1, 1>>],
     [text |-> "/**/ 1.0;", lexemes |-> <<"1.0", ";">>, lines |-> <<1, 1>>],
     [text |-> "/***/ 1.0;", lexemes |-> <<"1.0", ";">>, lines |-> <<1, 1>>],
     [text |-> "/* a */1.0;", lexemes |-> <<"1.0", ";">>, lines |-> <<1, 1>>],
     [text |-> "1.0 /* a b */ + 2.0;", lexemes |-> <<"1.0", "+", "2.0", ";">>,
      lines |-> <<1, 1, 1, 1>>],
     [text |-> "/* a\nb */ 1.0;", lexemes |-> <<"1.0", ";">>, lines |-> <<2, 2>>],
     [text |-> "/*\n\n*/ 1.0;", lexemes |-> <<"1.0", ";">>, lines |-> <<3, 3>>],
     [text |-> "/* /* */ 1.0;", lexemes |-> <<"1.0", ";">>, lines |-> <<1, 1>>],
     [text |-> "/* @ \" */ 1.0;", lexemes |-> <<"1.0", ";">>, lines |-> <<1, 1>>],
     [text |-> "/* a * b / c */ 1.0;", lexemes |-> <<"1.0", ";">>, lines |-> <<1, 1>>]}
CommentSessions == {File(c.text) : c \in CommentCases}

\* scripts with break and continue.  In the first group the statement stands
\* in a loop of the function it is written in; in the second it stands in a
\* function body that is declared inside a loop, with no loop of its own
\* around it.  out is what the script prints when the signal stays in the
\* function activation that raised it
SignalCases ==
    {[text |-> "fn f() { while (true) { break; } return 1.0; } print(f());",
      out |-> <<"1">>],
     [text |-> "fn f() { for (var i = 0.0; i < 2.0; i = i + 1.0) { continue; } return 1.0; } print(f());",
      out |-> <<"1">>],
     [text |-> "while (true) { fn f() { while (true) { break; } return 1.0; } print(f()); break; }",
      out |-> <<"1">>],
     [text |-> "while (true) { fn f() { break; } f(); print(\"after call\"); break; }",
      out |-> <<"after call">>],
     [text |-> "for (var i = 0.0; i < 2.0; i = i + 1.0) { fn f() { continue; } f(); print(\"after call\"); }",
      out |-> <<"after call", "after call">>],
     [text |-> "var g = nil; while (true) { fn f() { break; } g = f; break; } g(); print(\"end\");",
      out |-> <<"end">>]}
SignalSessions == {File(c.text) : c \in SignalCases}

\* scripts that declare a name twice, in one scope and in nested scopes, and
\* scripts that read a name in its own initializer; errors are the static
\* errors in the order they are reported, unused the names warned about, out
\* what a script without a static error prints
Redeclared == "Already variable with this name in this scope."
TooEarly == "Cannot access before initialization."
DeclarationCases ==
    {[text |-> "var a = 1.0; var a = 2.0; print(a);", errors |-> <<Redeclared>>,
      unused |-> {}, out |-> <<>>],
     [text |-> "{ var a = 1.0; var a; print(a); }", errors |-> <<Redeclared>>,
      unused |-> {}, out |-> <<>>],
     [text |-> "{ var a = 1.0; print(a); var a = 2.0; }", errors |-> <<Redeclared>>,
      unused |-> {}, out |-> <<>>],
     [text |-> "{ var a = 1.0; var a = 2.0; }", errors |-> <<Redeclared>>,
      unused |-> {"a"}, out |-> <<>>],
     [text |-> "{ var a = 1.0; var a = 2.0; var a = 3.0; print(a); }",
      errors |-> <<Redeclared, Redeclared>>, unused |-> {}, out |-> <<>>],
     [text |-> "fn f(a, a) { return a; } print(f);", errors |-> <<Redeclared>>,
      unused |-> {}, out |-> <<>>],
     [text |-> "fn f(a) { var a = 1.0; return a; } print(f);", errors |-> <<Redeclared>>,
      unused |-> {}, out |-> <<>>],
     [text |-> "fn f() {} fn f() {} print(f);", errors |-> <<Redeclared>>,
      unused |-> {}, out |-> <<>>],
     [text |-> "var a = 1.0; { var a = 2.0; print(a); } print(a);", errors |-> <<>>,
      unused |-> {}, out |-> <<"2", "1">>],
     [text |-> "var a = 1.0; { print(a); var a = 2.0; print(a); }", errors |-> <<>>,
      unused |-> {}, out |-> <<"1", "2">>],
     [text |-> "var a = 1.0; fn f(a) { return a; } print(f(2.0)); print(a);",
      errors |-> <<>>, unused |-> {}, out |-> <<"2", "1">>],
     [text |-> "var x = x;", errors |-> <<TooEarly>>, unused |-> {}, out |-> <<>>],
     [text |-> "{ var x = x; }", errors |-> <<TooEarly>>, unused |-> {}, out |-> <<>>],
     [text |-> "fn f() { var x = x; } f();", errors |-> <<TooEarly>>, unused |-> {},
      out |-> <<>>],
     [text |-> "var x = 1.0; { var x = x; }", errors |-> <<TooEarly>>, unused |-> {"x"},
      out |-> <<>>],
     [text |-> "var x = 1.0; { var x = x + 1.0; print(x); }", errors |-> <<TooEarly>>,
      unused |-> {"x"}, out |-> <<>>]}
DeclarationSessions == {File(c.text) : c \in DeclarationCases}

\* scripts that read a method from two instances and call the bound methods
\* afterwards; out is what they print when each bound method keeps the
\* instance it was read from
BindCases ==
    {[text |-> "class A { m() { return this; } } var a = A(); var b = A(); "
               \o "var ma = a.m; var mb = b.m; "
               \o "print(ma() == a); print(mb() == b); print(ma() == b);",
      out |-> <<"true", "true", "false">>],
     [text |-> "class A { A() { this.x = 1.0; } } var a = A(); var i = a.A; "
               \o "var b = A(); var j = b.A; print(i() == a); print(i() == b); print(j() == b);",
      out |-> <<"true", "false", "true">>],
     [text |-> "{ var k = 5.0; class A { m() { return k; } n() { return this; } } "
               \o "var a = A(); var b = A(); var n = a.n; print(b.m()); print(b.n() == b); "
               \o "print(n() == a); print(a.m == a.m); }",
      out |-> <<"5", "true", "true", "false">>],
     [text |-> "class A { m() { return this.x; } } var a = A(); var b = A(); "
               \o "a.x = 1.0; b.x = 2.0; var ma = a.m; print(b.m()); print(ma()); print(a.m());",
      out |-> <<"2", "1", "1">>]}
BindSessions == {File(c.text) : c \in BindCases}

\* scripts that assign to a name that has bindings in several environments;
\* out is what they print when the assignment changes the binding its
\* reference was resolved to, or the global one for an unresolved reference,
\* and no other; message is the runtime error they end with
AssignCases ==
    {[text |-> "var a = 1.0; { var a = 2.0; a = 3.0; print(a); } print(a);",
      out |-> <<"3", "1">>, message |-> ""],
     [text |-> "var a = 1.0; { var a = 2.0; { a = 3.0; } print(a); } print(a);",
      out |-> <<"3", "1">>, message |-> ""],
     [text |-> "var a = 1.0; { var b = 2.0; a = 3.0; print(b); } print(a);",
      out |-> <<"2", "3">>, message |-> ""],
     [text |-> "var a = 1.0; fn f() { a = 2.0; } { var a = 5.0; f(); print(a); } print(a);",
      out |-> <<"5", "2">>, message |-> ""],
     [text |-> "var a = 1.0; { fn f() { a = 2.0; } var a = 5.0; f(); print(a); } print(a);",
      out |-> <<"5", "2">>, message |-> ""],
     [text |-> "var a = 1.0; print(a = 2.0); print(a);",
      out |-> <<"2", "2">>, message |-> ""],
     [text |-> "var a = 1.0; var b = 1.0; a = b = 4.0; print(a); print(b);",
      out |-> <<"4", "4">>, message |-> ""],
     [text |-> "{ var a = 1.0; fn f() { a = a + 1.0; return a; } print(f()); print(f()); print(a); }",
      out |-> <<"2", "3", "3">>, message |-> ""],
     [text |-> "var a = 1.0; print(a); b = 2.0; print(a);",
      out |-> <<"1">>, message |-> "Undefined variable 'b'."],
     [text |-> "{ var a = 1.0; print(a); b = a; print(a); }",
      out |-> <<"1">>, message |-> "Undefined variable 'b'."]}
\* the same at the prompt, where a name of an earlier line is unresolved
AssignLines == {<<"var a = 1.0", "a = 2.0", "print(a)">>,
                <<"var a = 1.0", "b = 2.0", "print(a)">>}
AssignSessions ==
    {File(c.text) : c \in AssignCases} \cup {Prompt(lines) : lines \in AssignLines}

\* scripts that leave nested blocks by Return, Break, Continue and by a
\* runtime error, and then read a global a that the blocks shadow; out is
\* what they print when every block restores the environment it was entered
\* from, message the runtime error they end with
RestoreCases ==
    {[text |-> "var a = \"global\"; fn f() { var a = \"local\"; { { return a; } } } print(f()); print(a);",
      out |-> <<"local", "global">>, message |-> ""],
     [text |-> "var a = \"global\"; while (true) { var a = \"local\"; { { break; } } } print(a);",
      out |-> <<"global">>, message |-> ""],
     [text |-> "var a = \"global\"; for (var i = 0.0; i < 2.0; i = i + 1.0) { var a = \"local\"; { continue; } } print(a);",
      out |-> <<"global">>, message |-> ""],
     [text |-> "var a = \"global\"; { var a = \"local\"; { print(a); } } print(a);",
      out |-> <<"local", "global">>, message |-> ""],
     [text |-> "var a = \"global\"; fn f() { var a = \"local\"; { { nil(); } } } print(a); f(); print(a);",
      out |-> <<"global">>, message |-> "Can only call functions and classes."],
     [text |-> "var a = \"global\"; fn g() { { return 1.0; } } fn f() { var a = \"local\"; g(); return a; } print(f()); print(a);",
      out |-> <<"local", "global">>, message |-> ""]}
\* a runtime error in a block of a function called at the prompt, then a
\* declaration and a read on the next lines
RestoreLines ==
    <<"var a = \"global\"", "fn f() { var a = \"local\"; { { nil(); } } } f()",
      "var b = a", "print(b)">>
RestoreSessions == {File(c.text) : c \in RestoreCases} \cup {Prompt(RestoreLines)}


\* scripts that declare a variable without an initializer, assign to it and
\* then read it in the scope of the declaration; out is what they print when
\* an assigned variable is readable
LateCases ==
    {[text |-> "var x; x = 1.0; print(x);", out |-> <<"1">>],
     [text |-> "{ var x; x = 2.0; print(x); }", out |-> <<"2">>],
     [text |-> "fn f() { var x; x = 3.0; return x; } print(f());", out |-> <<"3">>],
     [text |-> "var x; x = \"v\"; var y = x; print(y);", out |-> <<"v">>],
     [text |-> "var x; { x = 4.0; } print(x);", out |-> <<"4">>],
     [text |-> "var x; var y = 5.0; x = y; print(x + y);", out |-> <<"10">>]}
\* the same on three lines of the prompt
LateLines == {<<"var x", "x = 1.0", "print(x)">>}
LateSessions ==
    {File(c.text) : c \in LateCases} \cup {Prompt(lines) : lines \in LateLines}

\* lines typed at the prompt, a source the scanner cannot read to its end,
\* and a program that does not stop
OtherSessions ==
    {Prompt(<<"var a = 1.0", "a + 1.0", "print(a)">>),
     File("print(1.0); /*"),
     File("while (true) {}")}

Sessions ==
    ForSessions \cup TruthSessions \cup EqualitySessions \cup CounterSessions
    \cup ShadowSessions \cup ClassSessions \cup ReturnSessions
    \cup StaticErrorSessions \cup LoopContextSessions \cup NumericSessions
    \cup RuntimeErrorSessions \cup CallSessions \cup UninitializedSessions
    \cup InheritanceSessions
    \cup PropertySessions
    \cup EchoSessions
    \cup ErrorLineSessions
    \cup UnusedSessions
    \cup BranchSessions
    \cup CommentSessions
    \cup SignalSessions
    \cup DeclarationSessions
    \cup BindSessions
    \cup AssignSessions
    \cup RestoreSessions
    \cup LateSessions
    \cup OtherSessions

Init ==
    /\ session \in Sessions
    /\ pc = "idle"
    /\ line_no = 1
    /\ source = ""
    /\ tokens = <<>>
    /\ statements = <<>>
    /\ nid = 1
    /\ agent = NewAgent
    /\ interp = NewInterpreter(session.mode = "prompt", session.now)
    /\ stmt_index = 1
    /\ exit_code = -1
    /\ dumped = 0
    /\ interpret_called = FALSE
    /\ at_run = Snapshot(NewInterpreter(session.mode = "prompt", session.now))
    /\ parser = ParserFields(NewParser(<<>>, NewAgent, 1))
    /\ resolver = ResolverFields(NewResolver(NewAgent, EmptyDict, FALSE))

Next ==
    \/ StartRun
    \/ Scan
    \/ Parse
    \/ Resolve
    \/ Execute
    \/ EndInterpret
    \/ ExitFile
    \/ NextLine
    \/ Interrupt
    \/ Traceback

Spec == Init /\ [][Next]_vars

\* an identifier token of a syntax tree that is built directly
Identifier(lexeme, line) == Token("IDENTIFIER", lexeme, NoneV, line)

(***************************************************************************)
(* Calls of a class whose Class object has a superclass.  No statement of  *)
(* this source builds one, so the two classes are declared by class        *)
(* statements and the superclass is then stored as Class(name, superclass, *)
(* methods) takes it.  The globals are                                     *)
(*   class A { <inherited> }   class B [< A] { <own> m() {} }               *)
(* and the statement that is executed is B(1.0, ..).                       *)
(*   own        the number of parameters of B's method B, -1 for none      *)
(*   inherited  -2: B has no superclass; -1: A declares its initializer    *)
(*              A() only; otherwise the number of parameters of a method   *)
(*              of A that is named B                                       *)
(*   given      the number of arguments of the call                        *)
(* Every method body prints the class and the name of the method.          *)
(***************************************************************************)
MaxArity == 2

Params(n) == [i \in 1..n |-> Identifier("p" \o NatToStr(i), 0)]

PrintStatement(text) ==
    Expression(Call(Variable(Identifier("print", 0), 1),
                    Token("RIGHT_PAREN", ")", NoneV, 0), <<Literal(StrV(text))>>))

Method(class, name, n) ==
    FunctionStmt(Identifier(name, 0),
                 FunctionExpr(Params(n), <<PrintStatement(class \o "." \o name)>>))

ClassA(inherited) ==
    ClassStmt(Identifier("A", 0), NoneNode,
              IF inherited = -1 THEN <<Method("A", "A", 0)>>
              ELSE IF inherited >= 0 THEN <<Method("A", "B", inherited)>>
              ELSE <<>>)

ClassB(own) ==
    ClassStmt(Identifier("B", 0), NoneNode,
              (IF own >= 0 THEN <<Method("B", "B", own)>> ELSE <<>>)
              \o <<Method("B", "m", 0)>>)

\* the interpreter after both class statements, B's superclass stored
WithClasses(own, inherited) ==
    LET a == Interpreter_visit_class_stmt(NewInterpreter(FALSE, 1000), ClassA(inherited)).st
        b == Interpreter_visit_class_stmt(a, ClassB(own)).st
    IN  IF inherited = -2 THEN b ELSE [b EXCEPT !.classes[2].superclass = 1]

CallOfB(given) ==
    Expression(Call(Variable(Identifier("B", 1), 2), Token("RIGHT_PAREN", ")", NoneV, 1),
                    [i \in 1..given |-> Literal(FloatV(i, 1))]))

ClassCall(own, inherited, given) ==
    [mode |-> "classes", own |-> own, inherited |-> inherited, given |-> given,
     now |-> 1000]

\* interpret is about to execute the call
ClassInit ==
    /\ session \in {ClassCall(own, inherited, given) :
                       own \in -1..MaxArity, inherited \in -2..MaxArity,
                       given \in 0..MaxArity}
    /\ pc = "interpret"
    /\ line_no = 1
    /\ source = ""
    /\ tokens = <<>>
    /\ statements = <<CallOfB(session.given)>>
    /\ nid = 3
    /\ agent = NewAgent
    /\ interp = WithClasses(session.own, session.inherited)
    /\ stmt_index = 1
    /\ exit_code = -1
    /\ dumped = 0
    /\ interpret_called = TRUE
    /\ at_run = Snapshot(WithClasses(session.own, session.inherited))
    /\ parser = ParserFields(NewParser(<<>>, NewAgent, 1))
    /\ resolver = ResolverFields(NewResolver(NewAgent, EmptyDict, FALSE))

ClassNext ==
    \/ Execute
    \/ EndInterpret

ClassSpec == ClassInit /\ [][ClassNext]_vars

(***************************************************************************)
(* The resolver on syntax trees the parser of this source cannot build: a  *)
(* class B with superclass A and one method, whose body is a sequence of   *)
(* expression statements, each a call.  The statement at position j of the *)
(* body has its tokens on line j, so the line of a report names the call.  *)
(*   super     super()       the callee is a Super without a method        *)
(*   super.m   super.m()     the callee is a Super with a method           *)
(*   f         f()           the callee is a variable                      *)
(*   this.m    this.m()      the callee is a property of this              *)
(***************************************************************************)
MaxBody == 3
CallKinds == {"super", "super.m", "f", "this.m"}

RECURSIVE Bodies(_)
Bodies(n) ==
    IF n = 0 THEN {<<>>}
    ELSE {Append(body, kind) : body \in Bodies(n - 1), kind \in CallKinds}

Callee(kind, line) ==
    CASE kind = "super" -> Super(Token("SUPER", "super", NoneV, line), NoneNode, 2 * line)
      [] kind = "super.m" ->
            Super(Token("SUPER", "super", NoneV, line), Identifier("m", line), 2 * line)
      [] kind = "f" -> Variable(Identifier("f", line), 2 * line)
      [] kind = "this.m" ->
            Get(This(Token("THIS", "this", NoneV, line), 2 * line), Identifier("m", line))

CallStatement(kind, line) ==
    Expression(Call(Callee(kind, line), Token("RIGHT_PAREN", ")", NoneV, line), <<>>))

\* class B < A { <method>() { <body> } }, the method named B (the initializer)
\* or m
SubclassWith(initializer, body) ==
    <<ClassStmt(Identifier("B", 0), Variable(Identifier("A", 0), 1),
                <<FunctionStmt(Identifier(IF initializer THEN "B" ELSE "m", 0),
                               FunctionExpr(<<>>, [j \in DOMAIN body |->
                                                      CallStatement(body[j], j)]))>>)>>

Tree(initializer, body) ==
    [mode |-> "tree", initializer |-> initializer, body |-> body, now |-> 1000]

\* run has parsed the statements and is about to resolve them
ResolverInit ==
    /\ session \in {Tree(initializer, body) :
                       initializer \in BOOLEAN,
                       body \in UNION {Bodies(n) : n \in 1..MaxBody}}
    /\ pc = "resolve"
    /\ line_no = 1
    /\ source = ""
    /\ tokens = <<>>
    /\ statements = SubclassWith(session.initializer, session.body)
    /\ nid = 2 * MaxBody + 2
    /\ agent = NewAgent
    /\ interp = NewInterpreter(FALSE, session.now)
    /\ stmt_index = 1
    /\ exit_code = -1
    /\ dumped = 0
    /\ interpret_called = FALSE
    /\ at_run = Snapshot(NewInterpreter(FALSE, session.now))
    /\ parser = ParserFields(NewParser(<<>>, NewAgent, 1))
    /\ resolver = ResolverFields(NewResolver(NewAgent, EmptyDict, FALSE))

ResolverSpec == ResolverInit /\ [][Resolve]_vars

(***************************************************************************)
(* The loop of Parser.parse, one round at a time.  The parser is given a   *)
(* list of tokens that ends with EOF: the opening of a loop, or nothing,   *)
(* followed by up to MaxTokens tokens.  A round is one                     *)
(* statements.append(self._declaration()); the loop goes on while the      *)
(* parser is not at the end, and nothing else runs meanwhile.              *)
(***************************************************************************)
MaxTokens == 4
TokenTypes == {"NUMBER", "SEMICOLON", "BREAK", "LEFT_BRACE", "RIGHT_BRACE", "RIGHT_PAREN"}
Openings == {<<>>,
             <<"WHILE", "LEFT_PAREN", "NUMBER", "RIGHT_PAREN">>,
             <<"FOR", "LEFT_PAREN", "SEMICOLON", "SEMICOLON", "RIGHT_PAREN">>}

RECURSIVE TypeLists(_)
TypeLists(n) ==
    IF n = 0 THEN {<<>>}
    ELSE LET shorter == TypeLists(n - 1)
         IN  shorter \cup {Append(types, type) : types \in shorter, type \in TokenTypes}

TokenOfType(type) ==
    CASE type = "NUMBER" -> Token("NUMBER", "1", IntV(1), 1)
      [] type = "SEMICOLON" -> Token("SEMICOLON", ";", NoneV, 1)
      [] type = "BREAK" -> Token("BREAK", "break", NoneV, 1)
      [] type = "LEFT_BRACE" -> Token("LEFT_BRACE", "{", NoneV, 1)
      [] type = "RIGHT_BRACE" -> Token("RIGHT_BRACE", "}", NoneV, 1)
      [] type = "LEFT_PAREN" -> Token("LEFT_PAREN", "(", NoneV, 1)
      [] type = "RIGHT_PAREN" -> Token("RIGHT_PAREN", ")", NoneV, 1)
      [] type = "WHILE" -> Token("WHILE", "while", NoneV, 1)
      [] type = "FOR" -> Token("FOR", "for", NoneV, 1)
      [] type = "EOF" -> Token("EOF", "", NoneV, 1)

TokenList(types) == [i \in 1..Len(types) |-> TokenOfType(types[i])]

ParserInit ==
    /\ session \in {[mode |-> "tokens", types |-> opening \o types \o <<"EOF">>, now |-> 0] :
                       opening \in Openings, types \in TypeLists(MaxTokens)}
    /\ pc = "parse"
    /\ line_no = 1
    /\ source = ""
    /\ tokens = TokenList(session.types)
    /\ statements = <<>>
    /\ nid = 1
    /\ agent = NewAgent
    /\ interp = NewInterpreter(FALSE, session.now)
    /\ stmt_index = 1
    /\ exit_code = -1
    /\ dumped = 0
    /\ interpret_called = FALSE
    /\ at_run = Snapshot(NewInterpreter(FALSE, session.now))
    /\ parser = ParserFields(NewParser(tokens, NewAgent, 1))
    /\ resolver = ResolverFields(NewResolver(NewAgent, EmptyDict, FALSE))

\* the Parser object between two rounds
ParserNow ==
    [tokens |-> tokens, current |-> parser.current, loop_depth |-> parser.loop_depth,
     agent |-> agent, nid |-> nid]

\* one round of the loop of parse
ParseRound ==
    /\ pc = "parse"
    /\ ~Parser_is_at_end(ParserNow)
    /\ \E d \in {Parser_method("declaration", ParserNow)} :
           /\ statements' = Append(statements, d.node)
           /\ parser' = ParserFields(d.ps)
           /\ agent' = d.ps.agent
           /\ nid' = d.ps.nid
    /\ UNCHANGED <<session, pc, line_no, source, tokens, interp, stmt_index, exit_code,
                   dumped, interpret_called, at_run, resolver>>

\* the loop ends and parse returns the statements
ParseReturn ==
    /\ pc = "parse"
    /\ Parser_is_at_end(ParserNow)
    /\ pc' = IF StopOnError(agent) THEN "ran" ELSE "resolve"
    /\ UNCHANGED <<session, line_no, source, tokens, statements, nid, agent, interp,
                   stmt_index, exit_code, dumped, interpret_called, at_run, parser,
                   resolver>>

ParserNext ==
    \/ ParseRound
    \/ ParseReturn

ParserSpec == ParserInit /\ [][ParserNext]_vars

(***************************************************************************)
(* Properties.                                                             *)
(***************************************************************************)
Texts(out) == [i \in DOMAIN out |-> out[i].text]
Exited == pc = "exited"
\* run is past the resolver, or has returned before it
Resolved == pc \in {"interpret", "ran", "exited", "crashed", "diverged"}
HasDiagnostic(kind) == \E i \in DOMAIN agent.diag : agent.diag[i].kind = kind
IsPrefix(a, b) == Len(a) <= Len(b) /\ a = SubSeq(b, 1, Len(a))

\* C1: a For loop evaluates its increment once after every iteration whose
\* body completes normally or raises Continue, and never for an iteration
\* whose body raises Break.  In the counting loop the body breaks, or
\* continues, in its second iteration, so n ends as the number of iterations
\* that did not break.
C1_IncrementNotAfterBreak ==
    /\ \A i \in DOMAIN interp.events :
           ~(interp.events[i].ev = "increment" /\ interp.events[i].after = "Break")
    /\ \A b \in 1..MaxK :
           /\ (session = File(ForLoopSource(b, "continue")) /\ Exited)
                  => Texts(interp.out) = <<NatToStr(b)>>
           /\ (session = File(ForLoopSource(b, "break")) /\ Exited)
                  => Texts(interp.out) = <<"1">>

\* a For loop has been left by break
C1_LoopLeftByBreak ==
    /\ Exited
    /\ \E i \in DOMAIN interp.events : interp.events[i].ev = "break"

\* C2: nil and false are the only falsy values: every construct that tests
\* truthiness takes any other value, the number 0 and the empty string
\* included, as true.
C2_OnlyNilAndFalseAreFalsy ==
    \A form \in TruthForms, lit \in Literals :
        (session = File(TruthSource(form, lit)) /\ Exited)
            => Texts(interp.out) =
                   <<IF lit \in {"nil", "false"} THEN "false" ELSE "true">>

\* a truthiness test of the number 0 or of the empty string has run
C2_ZeroOrEmptyTested ==
    /\ Exited
    /\ \E form \in TruthForms, lit \in {"0", "0.0", "\"\""} :
           session = File(TruthSource(form, lit))
    /\ Len(interp.out) = 1

\* C3: the k-th call of the closure makeCounter returned yields k: the
\* program that prints k calls of it prints 1, 2, .. k.
C3_CounterReturnsK ==
    \A k \in 1..MaxK :
        (session = File(CounterSource("0", "1", k)) /\ Exited)
            => Texts(interp.out) = [j \in 1..k |-> NatToStr(j)]

\* the counter program has run to its end
C3_CounterRan ==
    /\ Exited
    /\ \E k \in 1..MaxK : session = File(CounterSource("0", "1", k))

\* C4: a closure defined in a block reads the outer binding of a name on
\* every call, before and after a var of that name is declared in the block:
\* both calls print the outer value, the block itself then reads its own.
C4_ClosureReadsOuterBinding ==
    session \in ShadowSessions
        => /\ IsPrefix(Texts(interp.out), <<"outer", "outer", "inner">>)
           /\ Exited => Len(interp.out) = 3

\* the closure has been called after the block declared its own a
C4_CalledAfterDeclaration ==
    /\ session \in ShadowSessions
    /\ Len(interp.out) >= 2
    /\ \E e \in 2..Len(interp.envs) :
           /\ "a" \in DOMAIN interp.envs[e].values
           /\ interp.envs[e].values["a"] = StrV("inner")

\* the runtime type of the value of a literal, as the language names it
LoxType(lit) ==
    CASE lit = "nil" -> "nil"
      [] lit \in {"true", "false"} -> "boolean"
      [] lit \in {"0", "1", "0.0", "1.0"} -> "number"
      [] lit \in {"\"\"", "\"1\""} -> "string"
      [] lit = "clock" -> "callable"

\* C5: == is symmetric and does not coerce: for two values of different
\* runtime types a == b and b == a are false and a != b is true; a boolean
\* is never equal to a number, nil is equal only to nil.
C5_NoCrossTypeEquality ==
    \A a \in Literals, b \in Literals :
        (session = File(EqualitySource(a, b)) /\ Exited)
            => /\ Len(interp.out) = 3
               /\ interp.out[1].text = interp.out[2].text
               /\ LoxType(a) # LoxType(b)
                      => Texts(interp.out) = <<"false", "false", "true">>

\* a boolean has been compared with a number
C5_BooleanComparedWithNumber ==
    /\ Exited
    /\ \E a \in {"true", "false"}, b \in {"0", "1", "0.0", "1.0"} :
           session = File(EqualitySource(a, b))
    /\ Len(interp.out) = 3

\* C6: calling a class yields the new instance of that class, with no
\* initializer, with an initializer that runs to its end, and with one that
\* returns early; a call of the bound initializer yields its this, never the
\* value a Return carries.
C6_ClassCallYieldsInstance ==
    session \in ClassSessions
        => /\ IsPrefix(Texts(interp.out), <<"<A instance>", "1", "true">>)
           /\ Exited
                  => /\ Len(interp.out) = IF session = File(ClassWithout) THEN 1 ELSE 3
                     /\ exit_code = 0
                     /\ interp.envs[GlobalsEnv].values["a"] = InstanceV(1)
                     /\ interp.classes[interp.instances[1].klass].name = "A"

\* an initializer has returned early, and the bound initializer was called
\* again on the instance
C6_InitializerReturnedEarly ==
    /\ session = File(ClassSource("this.x = 1.0; return; this.x = 2.0;"))
    /\ Exited
    /\ Len(interp.out) = 3
    /\ interp.instances[1].fields["x"] = FloatV(1, 1)

ReturnMessages == {"Cannot return from top-level code.",
                   "Cannot return a value from an initializer."}
ReturnReported ==
    \E i \in DOMAIN agent.diag : agent.diag[i].message \in ReturnMessages

\* C7: the resolver reports every return outside any function and every
\* return of a value whose innermost function is an initializer, and no
\* other return.
C7_ReturnsReported ==
    \A c \in ReturnCases :
        (session = File(c.text) /\ Resolved)
            => /\ ReturnReported = c.reported
               /\ agent.had_error = c.reported

\* the resolver has passed over a return in an else branch
C7_ReturnInElseBranch ==
    /\ session = File("if (true) {} else return;")
    /\ Resolved

\* C8: when the scanner, the parser or the resolver has set the error flag
\* in a run, interpret is not called for that source: no statement of it is
\* executed, nothing is printed and no binding changes.
C8_StaticErrorsStopPipeline ==
    agent.had_error
        => /\ ~interpret_called
           /\ pc # "interpret"
           /\ Snapshot(interp) = at_run

\* run has returned on a static error, with statements it did not execute
C8_StoppedOnStaticError ==
    /\ agent.had_error
    /\ pc = "ran"
    /\ \E i \in DOMAIN statements : ~IsNone(statements[i])

\* C9: break or continue outside any loop is a parse error: it is reported,
\* the error flag is set, nothing is executed, and a script exits with 65.
C9_BreakOutsideLoopIsError ==
    session \in LoopContextSessions
        => /\ interp.out = <<>>
           /\ ~interpret_called
           /\ pc = "ran" => (agent.had_error /\ HasDiagnostic("error"))
           /\ Exited => exit_code = 65

\* a script with a break outside any loop has ended
C9_BreakScriptEnded ==
    /\ session = File("break;")
    /\ Exited

\* the number a numeric literal of the programs stands for
NumValue(lit) ==
    CASE lit = "6" -> FloatV(6, 1)
      [] lit = "1.5" -> FloatV(3, 2)
      [] lit = "2.0" -> FloatV(2, 1)

\* what print shows of a op b
NumResult(a, op, b) ==
    LET x == NumValue(a)
        y == NumValue(b)
        Bool(t) == IF t THEN "true" ELSE "false"
    IN  CASE op = "+" -> FormatG(x.n * y.d + y.n * x.d, x.d * y.d)
          [] op = "-" -> FormatG(x.n * y.d - y.n * x.d, x.d * y.d)
          [] op = "*" -> FormatG(x.n * y.n, x.d * y.d)
          [] op = "/" -> FormatG(x.n * y.d, x.d * y.n)
          [] op = "<" -> Bool(x.n * y.d < y.n * x.d)
          [] op = "<=" -> Bool(x.n * y.d <= y.n * x.d)
          [] op = ">" -> Bool(x.n * y.d > y.n * x.d)
          [] op = ">=" -> Bool(x.n * y.d >= y.n * x.d)

\* C10: a numeric literal, with or without a fractional part, is a number
\* to the evaluator: + - * / and < <= > >= on two numeric literals give the
\* arithmetic result and raise no runtime error; print(1+2*3) prints 7.
C10_NumericLiteralsAreNumbers ==
    /\ \A a \in NumLiterals, op \in NumOperators, b \in NumLiterals :
           (session = File(NumericSource(a, op, b)) /\ Exited)
               => /\ exit_code = 0
                  /\ Texts(interp.out) = <<NumResult(a, op, b)>>
    /\ (session \in {File("print(1+2*3);"), File("print(1.0+2.0*3.0);")} /\ Exited)
           => /\ exit_code = 0
              /\ Texts(interp.out) = <<"7">>

\* an operator has been applied to a literal without a fractional part
C10_IntegerLiteralUsed ==
    /\ session = File("print(1+2*3);")
    /\ Exited

\* the lines of the runtime errors reported so far
RuntimeErrorLines ==
    LET runtime == SelectSeq(agent.diag, LAMBDA d : d.kind = "runtime")
    IN  [i \in DOMAIN runtime |-> runtime[i].line]

\* C11: a runtime error aborts the top-level statement it is raised in: what
\* the statement had not done yet is not done, the error is reported once
\* with the line of its token, and the evaluator is back in the global
\* environment.  A script then has the runtime-error flag set and the error
\* flag clear and exits with 70; at the prompt the next line is executed.
C11_RuntimeErrorAbortsStatement ==
    /\ agent.had_runtime_error
           => /\ ~agent.had_error
              /\ pc \in {"ran", "exited"}
              /\ interp.environment = GlobalsEnv
    /\ \A c \in RuntimeErrorCases :
           /\ (session = File(c.text \o ";") /\ pc \in {"ran", "exited"})
                  => /\ agent.had_runtime_error
                     /\ Texts(interp.out) = c.out
                     /\ RuntimeErrorLines = <<c.line>>
           /\ (session = File(c.text \o ";") /\ Exited) => exit_code = 70
           /\ (session = Prompt(<<c.text, "print(9.0)">>) /\ Exited)
                  => /\ Texts(interp.out) = c.out \o <<"9">>
                     /\ RuntimeErrorLines = <<c.line>>
                     /\ exit_code = 0

\* a script has ended on a runtime error raised in the body of a for loop
C11_ErrorRaisedInLoopBody ==
    /\ session = File("for (var i = 0.0; i < 1.0; print(\"after\")) { nil(); } print(3.0);")
    /\ Exited
    /\ HasDiagnostic("runtime")

\* the message of the runtime error reported last, "" when there is none
LastRuntimeMessage ==
    LET runtime == SelectSeq(agent.diag, LAMBDA d : d.kind = "runtime")
    IN  IF runtime = <<>> THEN "" ELSE runtime[Len(runtime)].message

\* C12: a call evaluates its callee, then its arguments from left to right,
\* and only then checks the callee: a callee that is not callable, or a number
\* of arguments that is not its arity, is a runtime error, and nothing is
\* invoked: no call environment and no instance is made, no statement of the
\* body runs.  Any other call invokes the callable once, and the value of the
\* call is what it returns.
C12_CallChecksBeforeInvoking ==
    \A c \in CallCases :
        (session = File(CallPrefix \o c.text) /\ Exited)
            => /\ Texts(interp.out) = c.out
               /\ exit_code = c.code
               /\ LastRuntimeMessage = c.message
               /\ Len(interp.envs) = c.envs
               /\ Len(interp.instances) = c.instances

\* a call with too many arguments has evaluated them and raised
C12_ArityMismatchRaised ==
    /\ session = File(CallPrefix \o "print(f(print(1.0), print(2.0)));")
    /\ Exited
    /\ Len(interp.out) = 2
    /\ LastRuntimeMessage = "Expected 1 arguments but got 2."

\* C13: reading a variable that was declared without an initializer and not
\* assigned since is a runtime error, whether the reference is looked up in
\* globals or was resolved to a distance and is read from an ancestor
\* environment: nothing is printed, no variable is initialized from it, and
\* the sentinel is never shown.
C13_UninitializedReadIsError ==
    /\ \A i \in DOMAIN interp.out :
           interp.out[i].text # Interpreter_stringify(interp, UninitializedV(1))
    /\ (session \in UninitializedSessions /\ Exited)
           => /\ interp.out = <<>>
              /\ LastRuntimeMessage = "Cannot access 'a' before initialization."
              /\ session.mode = "file" => exit_code = 70

\* a script has read the uninitialized a through a resolved distance
C13_ReadThroughDistance ==
    /\ session = File("var a; { print(a); }")
    /\ Exited
    /\ \E e \in DOMAIN interp.locals : interp.locals[e] = 1

\* C14: a class declared with a superclass records it, and method lookup walks
\* the chain: a method defined only in an ancestor is found on an instance of
\* the subclass, and a method defined in both is the subclass's.  A script
\* that declares such classes and calls the method prints what the lookup
\* through the chain finds, and ends without an error.
C14_MethodFoundThroughSuperclass ==
    \A c \in InheritanceCases :
        (session = File(c.text) /\ Exited)
            => /\ Texts(interp.out) = c.out
               /\ exit_code = 0

\* a script that declares class B < A and calls an inherited method has ended
C14_SubclassScriptEnded ==
    /\ session = File("class A { m() { print(\"A\"); } } class B < A {} B().m();")
    /\ Exited
    /\ agent.diag # <<>>

FieldTexts(i) ==
    LET fields == interp.instances[i].fields
    IN  {<<n, Interpreter_stringify(interp, fields[n])>> : n \in DOMAIN fields}

\* C15: a property read returns the value last written under that name on
\* that instance, also when the class has a method of that name; a name that
\* is not a field is the class's method bound to the instance it was read
\* from; a name that is neither is the runtime error "Undefined property",
\* which leaves the fields as they were; a write to one instance does not
\* change the fields of another.
C15_FieldsThenBoundMethods ==
    /\ \A c \in PropertyCases :
           (session = File(PropertyPrefix \o c.text) /\ Exited)
               => /\ Texts(interp.out) = c.out
                  /\ LastRuntimeMessage = c.message
                  /\ exit_code = (IF c.message = "" THEN 0 ELSE 70)
                  /\ Len(interp.instances) = 2
                  /\ \A i \in 1..2 : FieldTexts(i) = c.fields[i]
    /\ (session = Prompt(PropertyLines) /\ Exited)
           => /\ Texts(interp.out) = <<"1", "1">>
              /\ RuntimeErrorLines = <<1, 1>>
              /\ FieldTexts(1) = {<<"x", "1">>}
              /\ FieldTexts(2) = {}

\* a field named like the method of the class has been written and read
C15_FieldShadowsMethod ==
    /\ session = File(PropertyPrefix
                      \o "a.x = 1.0; print(a.x); a.m = 2.0; print(a.m); print(b.m() == b);")
    /\ Exited
    /\ "m" \in DOMAIN interp.instances[1].fields

\* C16: at the prompt an expression statement is echoed exactly when its
\* evaluation did not call print, whatever earlier statements and earlier
\* lines did, a line that called print and ended in a runtime error included:
\* the session writes the values of the statements that did not call print,
\* and what print wrote.
C16_EchoDependsOnStatementOnly ==
    \A c \in EchoCases :
        (session = Prompt(c.lines) /\ Exited) => Texts(interp.out) = c.out

\* the line after a print call that raised a runtime error has been executed
C16_LineAfterFailedPrint ==
    /\ session = Prompt(<<"print(1.0/0.0)", "2.0">>)
    /\ Exited
    /\ LastRuntimeMessage = "Division by zero."

\* C17: at the prompt a line with a lexical, parse, resolve or runtime error
\* does not end the session, both error flags are false before the next line
\* is processed, and the valid line that follows is executed.
C17_PromptSurvivesErrorLine ==
    session \in ErrorLineSessions
        => /\ pc # "crashed"
           /\ pc = "idle" => ~agent.had_error /\ ~agent.had_runtime_error
           /\ Exited => /\ line_no = 2
                        /\ Texts(interp.out) = <<"9">>
                        /\ exit_code = 0

\* the line of an unclosed block comment has been typed and scanned, and the
\* session has ended on it
C17_UnclosedCommentTyped ==
    /\ session = Prompt(<<"/*", "print(9.0)">>)
    /\ line_no = 1
    /\ tokens = <<>>
    /\ exit_code = 1

\* the names the resolver has warned about, in the order of the warnings
WarnedNames ==
    LET warnings == SelectSeq(agent.diag, LAMBDA d : d.kind = "warning")
    IN  [i \in DOMAIN warnings |-> warnings[i].where]
Range(seq) == {seq[i] : i \in DOMAIN seq}

\* C18: leaving a scope, the resolver warns once about each entry that has
\* seen only its declaration, and about no other entry, never about the
\* implicit this; at the prompt it does not warn at all; a warning sets no
\* error flag, and the program is executed.
C18_WarnsAboutUnusedOnly ==
    \A c \in UnusedCases :
        /\ (session = File(c.text \o ";") /\ Resolved)
               => /\ Range(WarnedNames) = c.unused
                  /\ Len(WarnedNames) = Cardinality(c.unused)
        /\ session = Prompt(<<c.text>>) => WarnedNames = <<>>
        /\ (session \in {File(c.text \o ";"), Prompt(<<c.text>>)} /\ Exited)
               => /\ agent.diag = SelectSeq(agent.diag, LAMBDA d : d.kind = "warning")
                  /\ interpret_called
                  /\ Texts(interp.out) = c.out
                  /\ exit_code = 0

\* the resolver has left the scope of a line typed at the prompt that
\* declares a variable and does not use it
C18_UnusedDeclaredAtPrompt ==
    /\ session = Prompt(<<"var a = 1.0; print(2.0)">>)
    /\ Exited
    /\ interp.out # <<>>

\* C19: both branches of an if statement are resolved: a reference to a local
\* binding in the else branch gets a distance and counts as an occurrence of
\* the binding, as it does in the then branch, and executing the branch reads
\* and writes the local binding.
C19_ElseBranchResolved ==
    \A c \in BranchCases : \A b \in {"then", "else"} :
        /\ (session = File(c.text[b]) /\ Resolved)
               => /\ Cardinality(DOMAIN interp.locals) = c.resolved
                  /\ Range(WarnedNames) = c.unused
        /\ (session = File(c.text[b]) /\ Exited)
               => /\ Texts(interp.out) = c.out
                  /\ exit_code = 0

\* a script has executed an else branch that reads a local a shadowing a
\* global a
C19_ElseBranchExecuted ==
    /\ session = File("var a = \"global\"; { var a = \"local\"; "
                      \o "if (false) {} else print(a); } print(a);")
    /\ Exited
    /\ Len(interp.out) = 2

\* the lines of the calls the initializer-call discipline has reported
ReportedCalls ==
    {agent.diag[i].line : i \in
        {j \in DOMAIN agent.diag :
            agent.diag[j].message \in
                {"Can't use 'super' constructor in a function that is not an initializer.",
                 "'super' constructor must be called before any other statement."}}}

Scanned == SubSeq(tokens, 1, Len(tokens) - 1)

\* C21: a block comment ends at the first */ after its opening, does not
\* nest, and both closing characters are consumed: nothing between the
\* opening and that */ is a token or an error, scanning goes on right after
\* the */, and a newline in the comment advances the line counter.
C21_BlockCommentEndsAtFirstClose ==
    \A c \in CommentCases :
        (session = File(c.text) /\ pc \notin {"idle", "scan"})
            => /\ pc # "crashed"
               /\ tokens # <<>>
               /\ [i \in DOMAIN Scanned |-> Scanned[i].lexeme] = c.lexemes
               /\ [i \in DOMAIN Scanned |-> Scanned[i].line] = c.lines
               /\ pc = "parse" => agent.diag = <<>>

\* the scanner has read a source that begins with a block comment
C21_CommentScanned ==
    /\ session = File("/* x */ 1.0;")
    /\ pc = "parse"

\* C22: no Break or Continue leaves a function call or reaches the top level:
\* a break or continue the parser accepts is intercepted by a loop of the
\* function activation that raised it, so a call of a function returns to its
\* caller, the statements after the call are executed, and the script ends
\* without an exception.
C22_SignalsStayInActivation ==
    \A c \in SignalCases :
        session = File(c.text)
            => /\ pc # "crashed"
               /\ Exited => agent.had_error \/ Texts(interp.out) = c.out

\* a script that calls, inside a loop, a function whose body is a break
\* statement has ended
C22_BreakInFunctionInLoop ==
    /\ session = File("while (true) { fn f() { break; } f(); print(\"after call\"); break; }")
    /\ Exited
    /\ Len(interp.functions) = 1

\* the messages of the static errors, in the order they were reported
StaticErrors ==
    LET errors == SelectSeq(agent.diag, LAMBDA d : d.kind = "error")
    IN  [i \in DOMAIN errors |-> errors[i].message]

\* C23: declaring a name that has an entry in the innermost scope is a static
\* error and leaves the entry as it was (it keeps its initialized flag and
\* its occurrences), declaring it in a nested scope is no error, and a read of
\* a name whose entry in the innermost scope is not initialized yet is a
\* static error, so var x = x; is one in every scope.
C23_DeclarationProtocol ==
    \A c \in DeclarationCases :
        /\ (session = File(c.text) /\ Resolved)
               => /\ StaticErrors = c.errors
                  /\ Range(WarnedNames) = c.unused
                  /\ interpret_called = (c.errors = <<>>)
        /\ (session = File(c.text) /\ Exited)
               => /\ Texts(interp.out) = c.out
                  /\ exit_code = (IF c.errors = <<>> THEN 0 ELSE 65)

\* the resolver has met a second declaration of a in one scope, after which
\* a is read
C23_RedeclaredThenRead ==
    /\ session = File("{ var a = 1.0; var a; print(a); }")
    /\ Resolved
    /\ agent.had_error

StoredMethods ==
    UNION {{interp.classes[c].methods[n] : n \in DOMAIN interp.classes[c].methods} :
              c \in DOMAIN interp.classes}
BoundMethods ==
    {g \in DOMAIN interp.functions :
        DOMAIN interp.envs[interp.functions[g].closure].values = {"this"}}

\* C25: bind(instance) returns a new function whose closure is a fresh
\* environment that defines only this, as the instance, and whose parent is
\* the closure of the method, with the declaration and the initializer flag
\* of the method; the method the class stores and its closure are left as
\* they were, so a bound method read from a still sees a after the method has
\* been bound to b.
C25_BindMakesFreshClosure ==
    /\ \A m \in StoredMethods :
           /\ m \notin BoundMethods
           /\ "this" \notin DOMAIN interp.envs[interp.functions[m].closure].values
    /\ \A g \in BoundMethods :
           LET closure == interp.envs[interp.functions[g].closure]
           IN  /\ closure.values["this"].t = "Instance"
               /\ \E m \in StoredMethods :
                      /\ interp.functions[m].declaration = interp.functions[g].declaration
                      /\ interp.functions[m].is_initializer = interp.functions[g].is_initializer
                      /\ interp.functions[m].name = interp.functions[g].name
                      /\ interp.functions[m].closure = closure.enclosing
               /\ \A h \in BoundMethods :
                      h # g => interp.functions[h].closure # interp.functions[g].closure
    /\ \A c \in BindCases :
           (session = File(c.text) /\ Exited)
               => /\ Texts(interp.out) = c.out
                  /\ exit_code = 0

\* the method m has been bound to a and then to b, and both bound methods
\* have been called
C25_BoundToTwoInstances ==
    /\ session = File("class A { m() { return this; } } var a = A(); var b = A(); "
                      \o "var ma = a.m; var mb = b.m; "
                      \o "print(ma() == a); print(mb() == b); print(ma() == b);")
    /\ Exited
    /\ Cardinality(BoundMethods) >= 2

\* C26: an assignment evaluates its value and returns it, and changes one
\* existing binding: that of the environment the resolved distance points to,
\* or the global one when the reference is unresolved; the other bindings of
\* the name are left alone, and an unresolved name that globals does not
\* define is the runtime error "Undefined variable", which creates no
\* binding.
C26_AssignChangesOneBinding ==
    /\ \A c \in AssignCases :
           (session = File(c.text) /\ Exited)
               => /\ Texts(interp.out) = c.out
                  /\ LastRuntimeMessage = c.message
                  /\ exit_code = (IF c.message = "" THEN 0 ELSE 70)
    /\ (session = Prompt(<<"var a = 1.0", "a = 2.0", "print(a)">>)
        /\ line_no = 2 /\ pc = "ran")
           => /\ interp.envs = [at_run.envs EXCEPT ![GlobalsEnv].values["a"] = FloatV(2, 1)]
              /\ Texts(interp.out) = <<"2">>
    /\ (session = Prompt(<<"var a = 1.0", "b = 2.0", "print(a)">>)
        /\ line_no = 2 /\ pc = "ran")
           => /\ interp.envs = at_run.envs
              /\ LastRuntimeMessage = "Undefined variable 'b'."
              /\ interp.out = <<>>
    /\ (session \in {Prompt(lines) : lines \in AssignLines} /\ Exited)
           => Texts(interp.out)[Len(interp.out)]
                  = (IF session.lines[2] = "a = 2.0" THEN "2" ELSE "1")

\* a function declared before a local a of its block has assigned to the
\* global a, with the local a in scope at the call
C26_AssignedThroughDistance ==
    /\ session = File("var a = 1.0; { fn f() { a = 2.0; } var a = 5.0; f(); print(a); } print(a);")
    /\ Exited
    /\ interp.out # <<>>

\* C27: when interpret returns, after the last statement or on a runtime error
\* raised at any depth of blocks and calls, the current environment is the
\* globals environment; execute_block restores the environment it was entered
\* from on every way out, Return, Break, Continue and a runtime error
\* included, so what follows reads and declares in the environment it stands
\* in.
C27_EnvironmentRestored ==
    /\ interp.environment = GlobalsEnv
    /\ \A c \in RestoreCases :
           (session = File(c.text) /\ Exited)
               => /\ Texts(interp.out) = c.out
                  /\ LastRuntimeMessage = c.message
    /\ (session = Prompt(RestoreLines) /\ Exited)
           => /\ Texts(interp.out) = <<"global">>
              /\ "b" \in DOMAIN interp.envs[GlobalsEnv].values

\* a call has been left by a return statement two blocks deep in its body
C27_ReturnedFromNestedBlock ==
    /\ session = File("var a = \"global\"; fn f() { var a = \"local\"; { { return a; } } } print(f()); print(a);")
    /\ Exited
    /\ Len(interp.envs) >= 4

\* C28: Parser.parse ends on every list of tokens that ends with EOF: each
\* round of its loop moves the cursor forward by at least one token, so the
\* rounds are never more than the tokens before the cursor, the cursor never
\* passes the EOF token, and loop_depth is 0 when parse returns.
C28_ParseTerminates ==
    /\ [][ParseRound => parser'.current > parser.current]_vars
    /\ [](Len(statements) <= parser.current)
    /\ [](parser.current + 1 <= Len(tokens))
    /\ [](pc # "parse" => parser.loop_depth = 0 /\ tokens[parser.current + 1].type = "EOF")

\* parse has returned: the round that met an error in the body of a loop
\* recovered, and a later round parsed a statement
C28_RecoveredInsideLoop ==
    /\ session.mode = "tokens"
    /\ pc # "parse"
    /\ session.types[1] \in {"WHILE", "FOR"}
    /\ agent.had_error
    /\ Len(statements) >= 2
    /\ IsNone(statements[1])
    /\ ~IsNone(statements[2])

\* the resolver inside a construct: one scope is open, and the function, the
\* class and the constructor tracking have any of their values
Contexts ==
    {[Resolver_begin_scope(NewResolver(NewAgent, EmptyDict, FALSE)) EXCEPT
          !.current_function = function, !.current_class = class,
          !.current_constructor_type = constructor] :
        function \in {"NONE", "FUNCTION", "METHOD", "INITIALIZER"},
        class \in {"NONE", "CLASS", "SUBCLASS"},
        constructor \in {"NONE", "OTHER", "SUPER"}}

\* the depth of the scope stack and the three context fields
Context(rs) ==
    <<Len(rs.scopes), rs.current_function, rs.current_class,
      rs.current_constructor_type>>

\* C29: the resolver's context is balanced, with or without static errors:
\* the scope stack is empty and the context fields are reset when resolve
\* returns, and resolving a class or a function leaves the depth of the scope
\* stack, the function kind, the class kind and the constructor tracking as
\* they were before it was entered, whatever they were.
C29_ResolverContextBalanced ==
    (session.mode = "tree" /\ pc # "resolve")
        => /\ resolver = ResolverFields(NewResolver(NewAgent, EmptyDict, FALSE))
           /\ \A rs \in Contexts :
                  /\ Context(Resolver_resolve_stmt(rs, statements[1])) = Context(rs)
                  /\ \A type \in {"FUNCTION", "METHOD", "INITIALIZER"} :
                         Context(Resolver_resolve_function(
                                     rs, statements[1].methods[1].function, type))
                             = Context(rs)

\* the resolver has reported a super(...) call in a method that is not an
\* initializer and has returned
C29_ResolvedWithStaticError ==
    /\ session = Tree(FALSE, <<"f", "super">>)
    /\ pc # "resolve"
    /\ agent.had_error

\* C30: a variable declared without an initializer is readable once it has
\* been assigned: for var x; x = v; and then a read of x in the same scope,
\* the resolver reports no "Cannot access before initialization." for the
\* read, and the read gives v.
C30_AssignedVariableReadable ==
    /\ \A c \in LateCases :
           session = File(c.text)
               => /\ "Cannot access before initialization." \notin Range(StaticErrors)
                  /\ Exited => (exit_code = 0 /\ Texts(interp.out) = c.out)
    /\ session \in {Prompt(lines) : lines \in LateLines}
           => /\ "Cannot access before initialization." \notin Range(StaticErrors)
              /\ Exited => /\ interp.out # <<>>
                           /\ Texts(interp.out)[Len(interp.out)] = "1"

\* the resolver has resolved a script that declares x without an
\* initializer, assigns to it and prints it
C30_ReadAfterAssignmentResolved ==
    /\ session = File("var x; x = 1.0; print(x);")
    /\ pc = "ran"
    /\ Len(statements) = 3

=============================================================================
